---- MODULE Spec2Model ----
(***************************************************************************)
(* Scanner back end: the bounded LRU subscription manager over the live    *)
(* quote stream, and the scan cycle (runFullScan) that fetches metrics in  *)
(* paced batches, analyses them under a concurrency limiter, promotes the  *)
(* best candidates to the quote stream and persists the candidate set.     *)
(***************************************************************************)
EXTENDS Integers, Sequences, FiniteSets, TLC

\* SubscriptionManager.limit; 50 in the source, scaled down
limit == 2

\* finnhubStream MAX_SUBSCRIPTIONS; the source sets it to the same value (50)
\* as the manager's limit, so the two are scaled together
MAX_SUBSCRIPTIONS == limit

\* runFullScan BATCH_SIZE; 20 in the source (60 in analyzeMarket), scaled down
BATCH_SIZE == 2

\* pLimit(5): the size of the analysis pool, scaled down
POOL_SIZE == 2

\* the largest universe getTopMovers returns in the model
MaxUniverse == 3

\* the most tickers all cycles of the model are given together
MaxTotalTickers == 3

\* the most records handed to the limiter when the analysis phase is
\* checked alone: two more than the pool holds
MaxTasks == POOL_SIZE + 2

\* fhLimiter reservoir and reservoirRefreshAmount; 60 in the source (300 for
\* yhLimiter), scaled down
RESERVOIR == 2

\* the most requests scheduled through the limiter in the model
MaxRequests == 5

\* the polls triggerScanAndWait makes before it gives up, maxWaitMs /
\* pollIntervalMs; 30 and 40 in the source, scaled down
MaxPolls == 2

\* calculateRSI: the period argument, the longest close series and the
\* highest close of the model
period == 2
MaxSeries == 5
MaxClose == 6

\* norm: the highest value, lower end and upper end of the model
MaxNorm == 6

\* getFinnhubIndicators: the calls that can be in flight together, and the
\* time the model lets pass, in steps of half the cache lifetime
\* scoreTicker: the longest volume series and the highest volume of the model
MaxVolumes == 3
MaxVolume == 4

MaxFhCalls == 2
MaxCacheTicks == 4

\* the total scores analyzeMetrics gives a candidate in the model
Scores == {7, 8, 9}

\* The ticker symbols of the model, in whitelist order
Whitelist == <<"A", "B", "C", "D", "E">>

Range(s) == {s[k] : k \in 1..Len(s)}

Symbols == Range(Whitelist)

NoSymbol == "none"

VARIABLES
  queue,       \* SubscriptionManager.queue: symbols, oldest first
  set,         \* SubscriptionManager.set: membership
  subscribed,  \* finnhubStream: the stream's own set of subscribed symbols
  lastCall,    \* the most recent ensure() call: arguments, state before, stream calls issued
  subFailed,   \* symbols whose last ensure() ended in a failed subscribe
  scan,        \* the runFullScan() invocations: locals and position of each
  squeezeCandidates,  \* db: rows of the squeezeCandidates table, in id order
  history,     \* db: rows of the history table, in id order
  clock,       \* Date.now(), in milliseconds
  fhLimiter,   \* finnhubService: the Bottleneck limiter of the quote provider
  analysis,    \* one analyzeMetrics(data) call: its argument, position and result
  poller,      \* scheduler: one triggerScanAndWait() call
  fetched,     \* one per-symbol fetch of the batch phase: provider answers and result
  calc,        \* one call of a utility function: its name, arguments and result
  finnhub      \* finnhubService: the indicator cache and the getFinnhubIndicators calls

mgrVars == <<queue, set, subscribed, lastCall, subFailed>>

dbVars == <<squeezeCandidates, history, clock>>

svcVars == <<fhLimiter, analysis, poller, fetched, calc, finnhub>>

vars ==
  <<queue, set, subscribed, lastCall, subFailed, scan, squeezeCandidates, history, clock,
    fhLimiter, analysis, poller, fetched, calc, finnhub>>

(***************************************************************************)
(* finnhubStream.cjs                                                       *)
(***************************************************************************)

\* subscribe(symbol): no-op when already subscribed, throws at the cap,
\* throws when socket.send throws (sendOk = FALSE), else records the symbol
wsSubscribe(subs, symbol, sendOk) ==
  IF symbol \in subs
    THEN [subscribed |-> subs, threw |-> FALSE]
  ELSE IF Cardinality(subs) >= MAX_SUBSCRIPTIONS
    THEN [subscribed |-> subs, threw |-> TRUE]
  ELSE IF ~sendOk
    THEN [subscribed |-> subs, threw |-> TRUE]
  ELSE [subscribed |-> subs \cup {symbol}, threw |-> FALSE]

\* unsubscribe(symbol): no-op when not subscribed, throws when socket.send
\* throws (before the symbol is removed), else removes the symbol
wsUnsubscribe(subs, symbol, sendOk) ==
  IF symbol \notin subs
    THEN [subscribed |-> subs, threw |-> FALSE]
  ELSE IF ~sendOk
    THEN [subscribed |-> subs, threw |-> TRUE]
  ELSE [subscribed |-> subs \ {symbol}, threw |-> FALSE]

(***************************************************************************)
(* subscriptionManager.cjs                                                 *)
(***************************************************************************)

\* Array.prototype.indexOf: first index of x in q, 0 when absent
IndexOf(q, x) ==
  IF \E k \in 1..Len(q) : q[k] = x
    THEN CHOOSE k \in 1..Len(q) : q[k] = x /\ \A j \in 1..(k - 1) : q[j] # x
    ELSE 0

\* q.splice(idx, 1)
Splice1(q, idx) == SubSeq(q, 1, idx - 1) \o SubSeq(q, idx + 1, Len(q))

\* Faulty variant of touch: pushes without removing the old position
touch_noSplice(q, symbol) == Append(q, symbol)

\* Faulty variant of touch: moves the symbol to the front of the queue
touch_toFront(q, symbol) ==
  LET idx == IndexOf(q, symbol)
  IN  <<symbol>> \o (IF idx # 0 THEN Splice1(q, idx) ELSE q)

\* touch(symbol)
touch(q, symbol) ==
  LET idx == IndexOf(q, symbol)
  IN  Append(IF idx # 0 THEN Splice1(q, idx) ELSE q, symbol)

Call(fn, symbol, threw) == [fn |-> fn, symbol |-> symbol, threw |-> threw]

\* Faulty variant of Evict: the unsubscribe call is not wrapped in try/catch
Evict_noCatch(m, unsubOk) ==
  IF Len(m.queue) >= limit
    THEN LET oldest == Head(m.queue)
             u      == wsUnsubscribe(m.subscribed, oldest, unsubOk)
         IN  [queue      |-> Tail(m.queue),
              set        |-> m.set \ {oldest},
              subscribed |-> u.subscribed,
              calls      |-> Append(m.calls, Call("unsubscribe", oldest, u.threw)),
              threw      |-> u.threw]
    ELSE m

\* Faulty variant of Evict: the oldest symbol leaves the queue but stays in the set
Evict_keepInSet(m, unsubOk) ==
  IF Len(m.queue) >= limit
    THEN LET oldest == Head(m.queue)
             u      == wsUnsubscribe(m.subscribed, oldest, unsubOk)
         IN  [queue      |-> Tail(m.queue),
              set        |-> m.set,
              subscribed |-> u.subscribed,
              calls      |-> Append(m.calls, Call("unsubscribe", oldest, u.threw)),
              threw      |-> FALSE]
    ELSE m

\* Faulty variant of Evict: the newest symbol is removed, not the oldest
Evict_newest(m, unsubOk) ==
  IF Len(m.queue) >= limit
    THEN LET newest == m.queue[Len(m.queue)]
             u      == wsUnsubscribe(m.subscribed, newest, unsubOk)
         IN  [queue      |-> SubSeq(m.queue, 1, Len(m.queue) - 1),
              set        |-> m.set \ {newest},
              subscribed |-> u.subscribed,
              calls      |-> Append(m.calls, Call("unsubscribe", newest, u.threw)),
              threw      |-> FALSE]
    ELSE m

\* ensure(), "At capacity? remove oldest": shift the queue, delete from the
\* set, call wsUnsubscribe inside try/catch (a throw is logged, not rethrown)
Evict(m, unsubOk) ==
  IF Len(m.queue) >= limit
    THEN LET oldest == Head(m.queue)
             u      == wsUnsubscribe(m.subscribed, oldest, unsubOk)
         IN  [queue      |-> Tail(m.queue),
              set        |-> m.set \ {oldest},
              subscribed |-> u.subscribed,
              calls      |-> Append(m.calls, Call("unsubscribe", oldest, u.threw)),
              threw      |-> FALSE]
    ELSE m

\* Faulty variant of SubscribeNew: the symbol is tracked although wsSubscribe threw
SubscribeNew_trackOnFailure(m, symbol, subOk) ==
  LET s == wsSubscribe(m.subscribed, symbol, subOk)
  IN  [queue      |-> Append(m.queue, symbol),
       set        |-> m.set \cup {symbol},
       subscribed |-> s.subscribed,
       calls      |-> Append(m.calls, Call("subscribe", symbol, s.threw)),
       threw      |-> FALSE]

\* ensure(), "Subscribe new symbol": wsSubscribe, then set.add and
\* queue.push, all inside try/catch; a throw skips the add and the push
SubscribeNew(m, symbol, subOk) ==
  LET s == wsSubscribe(m.subscribed, symbol, subOk)
  IN  IF s.threw
        THEN [m EXCEPT !.calls = Append(m.calls, Call("subscribe", symbol, TRUE))]
        ELSE [queue      |-> Append(m.queue, symbol),
              set        |-> m.set \cup {symbol},
              subscribed |-> s.subscribed,
              calls      |-> Append(m.calls, Call("subscribe", symbol, FALSE)),
              threw      |-> FALSE]

\* Faulty variant of ensure: the set.has(symbol) test is missing
ensure_noHasCheck(m, symbol, unsubOk, subOk) ==
  LET e == Evict(m, unsubOk)
  IN  IF e.threw THEN e ELSE SubscribeNew(e, symbol, subOk)

\* ensure(symbol) on the manager state m = [queue, set, subscribed, calls, threw];
\* an exception leaving a step (threw) skips the steps after it
ensure(m, symbol, unsubOk, subOk) ==
  IF symbol \in m.set
    THEN [m EXCEPT !.queue = touch(m.queue, symbol)]
    ELSE LET e == Evict(m, unsubOk)
         IN  IF e.threw THEN e ELSE SubscribeNew(e, symbol, subOk)

\* The manager and stream state as one record, with an empty call log
Mgr(q, s, subs) ==
  [queue |-> q, set |-> s, subscribed |-> subs, calls |-> <<>>, threw |-> FALSE]

\* The record kept of one ensure() call
CallRecord(symbol, q, s, subs, failedBefore, r) ==
  [symbol        |-> symbol,
   preQueue      |-> q,
   preSet        |-> s,
   preSubscribed |-> subs,
   retry         |-> symbol \in failedBefore,
   calls         |-> r.calls,
   threw         |-> r.threw]

SubscribeThrew(r) ==
  \E k \in 1..Len(r.calls) : r.calls[k].fn = "subscribe" /\ r.calls[k].threw

\* ensure(symbol) applied to the manager, the stream and the call history
\* M = [queue, set, subscribed, lastCall, subFailed]
EnsureOn(M, symbol, unsubOk, subOk) ==
  LET r == ensure(Mgr(M.queue, M.set, M.subscribed), symbol, unsubOk, subOk)
  IN  [queue      |-> r.queue,
       set        |-> r.set,
       subscribed |-> r.subscribed,
       lastCall   |-> CallRecord(symbol, M.queue, M.set, M.subscribed, M.subFailed, r),
       subFailed  |-> IF SubscribeThrew(r)
                        THEN M.subFailed \cup {symbol}
                        ELSE M.subFailed \ {symbol}]

Manager ==
  [queue |-> queue, set |-> set, subscribed |-> subscribed,
   lastCall |-> lastCall, subFailed |-> subFailed]

SetManager(M) ==
  /\ queue' = M.queue
  /\ set' = M.set
  /\ subscribed' = M.subscribed
  /\ lastCall' = M.lastCall
  /\ subFailed' = M.subFailed

NoCall ==
  [symbol |-> NoSymbol, preQueue |-> <<>>, preSet |-> {}, preSubscribed |-> {},
   retry |-> FALSE, calls |-> <<>>, threw |-> FALSE]

MgrInit ==
  /\ queue = <<>>
  /\ set = {}
  /\ subscribed = {}
  /\ lastCall = NoCall
  /\ subFailed = {}

(***************************************************************************)
(* scannerController.cjs: runFullScan, the fetch phase                     *)
(***************************************************************************)

\* The runFullScan() invocations of the model, numbered in trigger order:
\* two, so that one can overlap the other or follow it
Cycles == {1, 2}

Min(a, b) == IF a < b THEN a ELSE b

\* a runFullScan() that has not been called yet
IdleScan ==
  [pc         |-> "idle",
   tickers    |-> <<>>,      \* const tickers
   i          |-> 0,         \* the loop variable of the batch loop
   fetch      |-> <<>>,      \* per ticker: what its fetch did
   starts     |-> <<>>,      \* per ticker: how many times its fetch was started
   allMetrics |-> <<>>,      \* const allMetrics (the symbols of the records)
   batches    |-> 0,         \* batches issued
   pauses     |-> 0,         \* inter-batch pauses begun
   task       |-> <<>>,      \* per metrics record: state of its analyzeMetrics task
   totalScore |-> <<>>,      \* per metrics record: totalScore of its candidate
   results    |-> <<>>,      \* const results
   optIdx     |-> 0,         \* position of the options loop in results
   abortedIn  |-> "none",    \* the phase whose exception reached the outer catch
   log        |-> "none",    \* the error message logged by the cycle
   saved      |-> "none",    \* what saveResults did
   promoted   |-> FALSE,     \* the promotion of the best candidates has run
   promoteSaw |-> "none",    \* what saveResults had done when the promotion ran
   saveSaw    |-> FALSE,     \* whether the promotion had run when saveResults was called
   response   |-> "none"]    \* the status triggerScan answered with

\* batch = tickers.slice(i, i + BATCH_SIZE), as 1-based positions
BatchIndices(i, n) == (i + 1)..Min(i + BATCH_SIZE, n)

Settled(status) == status \in {"ok", "null", "threw"}

\* Faulty variant of FetchPromise: no try/catch around the per-symbol fetch
FetchPromise_noCatch(status) ==
  IF status = "ok" THEN "record" ELSE IF status = "threw" THEN "rejected" ELSE "null"

\* What the per-symbol async callback of batch.map resolves to: the merged
\* record, or null when a provider returned nothing usable or when anything
\* threw (caught, logged, null)
FetchPromise(status) ==
  IF status = "ok" THEN "record" ELSE "null"

\* Faulty variant of NeedsPause: the pause follows every batch, the last one too
NeedsPause_always(i, n, B) == TRUE

\* Faulty variant of NeedsPause: the driver never pauses
NeedsPause_never(i, n, B) == FALSE

\* if (i + BATCH_SIZE < tickers.length), for batch size B
NeedsPause(i, n, B) == i + B < n

\* The batch loop alone, for n tickers and batch size B: the batches it
\* issues and the pauses it makes from position i on
RECURSIVE BatchLoop(_, _, _, _)
BatchLoop(i, n, B, acc) ==
  IF i < n
    THEN BatchLoop(i + B, n, B,
                   [batches |-> acc.batches + 1,
                    pauses  |-> acc.pauses + (IF NeedsPause(i, n, B) THEN 1 ELSE 0)])
    ELSE acc

\* Promise.all(batch.map(...)) is issued: every fetch of the batch starts
StartBatch(s) ==
  LET n == Len(s.tickers)
      B == BatchIndices(s.i, n)
  IN  [s EXCEPT !.fetch   = [k \in 1..n |-> IF k \in B THEN "inFlight" ELSE s.fetch[k]],
                !.starts  = [k \in 1..n |-> IF k \in B THEN s.starts[k] + 1 ELSE s.starts[k]],
                !.batches = s.batches + 1,
                !.pc      = "fetching"]

\* Phase 2b begins: every record is handed to the limiter, which starts the
\* first POOL_SIZE tasks and queues the others in submission order
StartAnalysis(s) ==
  LET m == Len(s.allMetrics)
  IN  [s EXCEPT !.task       = [k \in 1..m |-> IF k <= POOL_SIZE THEN "running" ELSE "queued"],
                !.totalScore = [k \in 1..m |-> 0],
                !.pc         = "analyze"]

\* The head of the batch loop: i < tickers.length enters the body, else the
\* loop is left
LoopHead(s) ==
  IF s.i < Len(s.tickers) THEN StartBatch(s) ELSE StartAnalysis(s)

\* the outer catch of runFullScan
Abort(s, phase) ==
  [s EXCEPT !.pc = "aborted", !.abortedIn = phase, !.log = "runFullScan error"]

\* batchResults.filter(Boolean): the symbols of the current batch whose
\* promise gave a record, in ticker order
BatchRecords(s) ==
  LET n   == Len(s.tickers)
      B   == BatchIndices(s.i, n)
      hit == SelectSeq([k \in 1..n |-> k],
                       LAMBDA k : k \in B /\ FetchPromise(s.fetch[k]) = "record")
  IN  [j \in 1..Len(hit) |-> s.tickers[hit[j]]]

\* Faulty variant of BatchSettled: the driver goes on after the first settled fetch
BatchSettled_any(s) ==
  \E k \in BatchIndices(s.i, Len(s.tickers)) : Settled(s.fetch[k])

\* await Promise.all(...): every promise of the current batch has settled
BatchSettled(s) ==
  \A k \in BatchIndices(s.i, Len(s.tickers)) : Settled(s.fetch[k])

\* Faulty variant of Trigger: the cycle is started and nothing is answered
Trigger_noResponse(c) ==
  /\ scan[c].pc = "idle"
  /\ \A b \in Cycles : b < c => scan[b].pc # "idle"
  /\ scan' = [scan EXCEPT ![c].pc = "universe"]
  /\ UNCHANGED <<mgrVars, dbVars, svcVars>>

\* triggerScan(req, res): runFullScan() is called and runs up to the
\* getTopMovers await, then res.json({ status: 'Scan started' })
Trigger(c) ==
  /\ scan[c].pc = "idle"
  /\ \A b \in Cycles : b < c => scan[b].pc # "idle"
  /\ scan' = [scan EXCEPT ![c].pc = "universe", ![c].response = "Scan started"]
  /\ UNCHANGED <<mgrVars, dbVars, svcVars>>

RECURSIVE TickersOfCycles(_)
TickersOfCycles(cs) ==
  IF cs = {} THEN 0
  ELSE LET c == CHOOSE x \in cs : TRUE
       IN  Len(scan[c].tickers) + TickersOfCycles(cs \ {c})

\* getTopMovers resolves with n tickers; the batch loop is entered
UniverseDone(c, n) ==
  /\ scan[c].pc = "universe"
  /\ n + TickersOfCycles(Cycles \ {c}) <= MaxTotalTickers
  /\ scan' = [scan EXCEPT ![c] =
       LoopHead([scan[c] EXCEPT !.tickers = SubSeq(Whitelist, 1, n),
                                !.fetch   = [k \in 1..n |-> "notStarted"],
                                !.starts  = [k \in 1..n |-> 0],
                                !.i       = 0])]
  /\ UNCHANGED <<mgrVars, dbVars, svcVars>>

\* getTopMovers rejects: the outer catch logs the error
UniverseThrows(c) ==
  /\ scan[c].pc = "universe"
  /\ scan' = [scan EXCEPT ![c] = Abort(scan[c], "universe")]
  /\ UNCHANGED <<mgrVars, dbVars, svcVars>>

\* One fetch of the current batch settles: both providers answered ("ok"),
\* one of them gave null or an empty history ("null"), or a call threw
FetchSettle(c, k, status) ==
  /\ scan[c].pc = "fetching"
  /\ k \in 1..Len(scan[c].tickers)
  /\ scan[c].fetch[k] = "inFlight"
  /\ scan' = [scan EXCEPT ![c].fetch[k] = status]
  /\ UNCHANGED <<mgrVars, dbVars, svcVars>>

\* Promise.all of the batch resolves: the records are pushed; then either the
\* pause begins or the loop goes on (i += BATCH_SIZE) to its head
BatchDone(c) ==
  LET s == scan[c]
      n == Len(s.tickers)
  IN  /\ s.pc = "fetching"
      /\ BatchSettled(s)
      /\ scan' = [scan EXCEPT ![c] =
           IF \E k \in BatchIndices(s.i, n) : FetchPromise(s.fetch[k]) = "rejected"
             THEN Abort(s, "fetch")
           ELSE IF NeedsPause(s.i, n, BATCH_SIZE)
             THEN [s EXCEPT !.allMetrics = s.allMetrics \o BatchRecords(s),
                            !.pauses     = s.pauses + 1,
                            !.pc         = "pause"]
           ELSE LoopHead([s EXCEPT !.allMetrics = s.allMetrics \o BatchRecords(s),
                                   !.i          = s.i + BATCH_SIZE])]
      /\ UNCHANGED <<mgrVars, dbVars, svcVars>>

\* the BATCH_INTERVAL timer fires: i += BATCH_SIZE and back to the loop head
PauseElapsed(c) ==
  /\ scan[c].pc = "pause"
  /\ scan' = [scan EXCEPT ![c] = LoopHead([scan[c] EXCEPT !.i = scan[c].i + BATCH_SIZE])]
  /\ UNCHANGED <<mgrVars, dbVars, svcVars>>


(***************************************************************************)
(* runFullScan: analysis under the limiter, options, promotion             *)
(***************************************************************************)

\* scoreTicker: isTopPick: totalScore >= 8
IsTopPick(totalScore) == totalScore >= 8

\* what an analyzeMetrics task can do: return a candidate with a total score,
\* return null (the gate), or reject
Outcomes ==
  {[kind |-> "cand", totalScore |-> x] : x \in Scores}
    \cup {[kind |-> "none", totalScore |-> 0], [kind |-> "rejected", totalScore |-> 0]}

\* Faulty variant of StartNextQueued: the newest queued task is started
StartNextQueued_newest(task) ==
  IF \E k \in 1..Len(task) : task[k] = "queued"
    THEN LET k == CHOOSE j \in 1..Len(task) :
                    task[j] = "queued" /\ \A h \in (j + 1)..Len(task) : task[h] # "queued"
         IN  [task EXCEPT ![k] = "running"]
    ELSE task

\* p-limit, on a task's end: the oldest queued task is started
StartNextQueued(task) ==
  IF \E k \in 1..Len(task) : task[k] = "queued"
    THEN LET k == CHOOSE j \in 1..Len(task) :
                    task[j] = "queued" /\ \A h \in 1..(j - 1) : task[h] # "queued"
         IN  [task EXCEPT ![k] = "running"]
    ELSE task

\* await Promise.all(analysis), seen from task k ending with kind: the first
\* rejection rejects the await and control reaches the outer catch
AwaitAll(s, k, kind) ==
  IF kind = "rejected" /\ s.pc = "analyze" THEN Abort(s, "analysis") ELSE s

\* A running analyzeMetrics task ends; the limiter starts the next queued one
TaskSettle(c, k, o) ==
  LET s == scan[c]
  IN  /\ s.pc \in {"analyze", "aborted"}
      /\ k \in 1..Len(s.task)
      /\ s.task[k] = "running"
      /\ scan' = [scan EXCEPT ![c] =
           AwaitAll([s EXCEPT !.task       = StartNextQueued([s.task EXCEPT ![k] = o.kind]),
                              !.totalScore = [s.totalScore EXCEPT ![k] = o.totalScore]],
                    k, o.kind)]
      /\ UNCHANGED <<mgrVars, dbVars, svcVars>>

\* (await Promise.all(analysis)).filter(Boolean): the candidates, in the
\* order of allMetrics
Candidates(s) ==
  LET hit == SelectSeq([k \in 1..Len(s.task) |-> k], LAMBDA k : s.task[k] = "cand")
  IN  [j \in 1..Len(hit) |->
         [symbol     |-> s.allMetrics[hit[j]],
          totalScore |-> s.totalScore[hit[j]],
          isTopPick  |-> IsTopPick(s.totalScore[hit[j]])]]

\* Promise.all(analysis) resolves: results is built and the options loop
\* requests the options analysis of its first candidate
AnalysisDone(c) ==
  LET s == scan[c]
  IN  /\ s.pc = "analyze"
      /\ \A k \in 1..Len(s.task) : s.task[k] \in {"cand", "none"}
      /\ scan' = [scan EXCEPT ![c] =
           [s EXCEPT !.results = Candidates(s), !.optIdx = 1, !.pc = "options"]]
      /\ UNCHANGED <<mgrVars, dbVars, svcVars>>

\* analyzeOptionsWithGPT settles for the current candidate (a failure is
\* caught and logged); the loop moves to the next candidate
OptionsSettle(c) ==
  /\ scan[c].pc = "options"
  /\ scan[c].optIdx <= Len(scan[c].results)
  /\ scan' = [scan EXCEPT ![c].optIdx = scan[c].optIdx + 1]
  /\ UNCHANGED <<mgrVars, dbVars, svcVars>>

\* Array.prototype.sort with (a, b) => b.totalScore - a.totalScore: stable,
\* descending; x goes behind every element that is not smaller
InsertByScore(sorted, x) ==
  LET ahead == Cardinality({k \in 1..Len(sorted) : sorted[k].totalScore >= x.totalScore})
  IN  SubSeq(sorted, 1, ahead) \o <<x>> \o SubSeq(sorted, ahead + 1, Len(sorted))

RECURSIVE SortByTotalScore(_)
SortByTotalScore(rs) ==
  IF rs = <<>> THEN <<>>
  ELSE InsertByScore(SortByTotalScore(SubSeq(rs, 1, Len(rs) - 1)), rs[Len(rs)])

\* results.sort(...).slice(0, limit).forEach(r => ensure(r.symbol)); an
\* exception leaving ensure() ends the forEach. The forEach runs to its end
\* without an await, so the socket is in one state for all its sends: they
\* all succeed or all throw (sendOk)
RECURSIVE Promote(_, _, _, _)
Promote(M, sorted, pos, sendOk) ==
  IF pos > Min(limit, Len(sorted)) THEN [mgr |-> M, threw |-> FALSE]
  ELSE LET M2 == EnsureOn(M, sorted[pos].symbol, sendOk, sendOk)
       IN  IF M2.lastCall.threw THEN [mgr |-> M2, threw |-> TRUE]
           ELSE Promote(M2, sorted, pos + 1, sendOk)

(***************************************************************************)
(* db.cjs                                                                  *)
(***************************************************************************)

\* Faulty variant of CandidateRows: the clock is read for every row
CandidateRows_stampPerRow(items, now, c) ==
  [k \in 1..Len(items) |->
     [cycle      |-> c,
      symbol     |-> items[k].symbol,
      totalScore |-> items[k].totalScore,
      isTopPick  |-> IF items[k].isTopPick # 0 THEN 1 ELSE 0,
      timestamp  |-> now + k - 1]]

\* the rows insertCandidate.run inserts for items, in order; item.isTopPick ?
\* 1 : 0 is applied to the number the caller passes
CandidateRows(items, now, c) ==
  [k \in 1..Len(items) |->
     [cycle      |-> c,
      symbol     |-> items[k].symbol,
      totalScore |-> items[k].totalScore,
      isTopPick  |-> IF items[k].isTopPick # 0 THEN 1 ELSE 0,
      timestamp  |-> now]]

HistoryRow(items, now, c) ==
  [cycle |-> c, timestamp |-> now, candidateCount |-> Len(items)]

\* Faulty variant of saveResults: the inserts run outside a transaction
saveResults_noTransaction(db, items, now, failAt, c) ==
  IF failAt = 0
    THEN [squeezeCandidates |-> db.squeezeCandidates \o CandidateRows(items, now, c),
          history           |-> Append(db.history, HistoryRow(items, now, c)),
          threw             |-> FALSE]
    ELSE [squeezeCandidates |-> db.squeezeCandidates
                                  \o SubSeq(CandidateRows(items, now, c), 1, failAt - 1),
          history           |-> db.history,
          threw             |-> TRUE]

\* saveResults(results): one transaction inserts a row per item, then the
\* history row, all with the timestamp now. failAt = 0: every statement
\* succeeds; failAt = k: the k-th statement throws (k = Len(items) + 1 is the
\* history insert) and the transaction is rolled back before the rethrow
saveResults(db, items, now, failAt, c) ==
  IF failAt = 0
    THEN [squeezeCandidates |-> db.squeezeCandidates \o CandidateRows(items, now, c),
          history           |-> Append(db.history, HistoryRow(items, now, c)),
          threw             |-> FALSE]
    ELSE [squeezeCandidates |-> db.squeezeCandidates,
          history           |-> db.history,
          threw             |-> TRUE]

\* getLatestCandidates(limit): ORDER BY id DESC LIMIT ?
getLatestCandidates(rows, n) ==
  [k \in 1..Min(n, Len(rows)) |-> rows[Len(rows) + 1 - k]]

\* Faulty variant of Sanitize: every candidate is flagged as a top pick
Sanitize_allTopPicks(results) ==
  [k \in 1..Len(results) |->
     [symbol     |-> results[k].symbol,
      totalScore |-> results[k].totalScore,
      isTopPick  |-> 1]]

\* const sanitized = results.map(cand => ({...})): the fields of the model,
\* isTopPick as cand.isTopPick ? 1 : 0
Sanitize(results) ==
  [k \in 1..Len(results) |->
     [symbol     |-> results[k].symbol,
      totalScore |-> results[k].totalScore,
      isTopPick  |-> IF results[k].isTopPick THEN 1 ELSE 0]]

\* Phase 4, the promotion: results.sort(...).slice(0, limit).forEach(r =>
\* subscriptionManager.ensure(r.symbol)); the sort is in place. ph is the
\* state Phase 4 works on: the cycle's locals s, the manager mgr, the
\* database db, and whether an exception is on its way to the outer catch
PromoteStep(ph, sendOk) ==
  IF ph.threw THEN ph
  ELSE LET sorted == SortByTotalScore(ph.s.results)
           p      == Promote(ph.mgr, sorted, 1, sendOk)
       IN  [ph EXCEPT !.mgr          = p.mgr,
                      !.threw        = p.threw,
                      !.s.results    = sorted,
                      !.s.promoted   = TRUE,
                      !.s.promoteSaw = ph.s.saved]

\* Phase 4, the save: try { saveResults(sanitized); getLatestCandidates() }
\* catch (dbErr) { log.error(...) }
SaveStep(ph, c, now, failAt, readOk) ==
  IF ph.threw THEN ph
  ELSE LET db == saveResults(ph.db, Sanitize(ph.s.results), now, failAt, c)
       IN  [ph EXCEPT !.db        = [squeezeCandidates |-> db.squeezeCandidates,
                                     history           |-> db.history],
                      !.s.saved   = IF db.threw THEN "rolledBack" ELSE "committed",
                      !.s.log     = IF db.threw \/ ~readOk THEN "saveResults error" ELSE "none",
                      !.s.saveSaw = ph.s.promoted]

\* Faulty variant of Phase4: the candidates are saved before they are promoted
Phase4_saveFirst(ph, c, sendOk, now, failAt, readOk) ==
  PromoteStep(SaveStep(ph, c, now, failAt, readOk), sendOk)

\* Phase 4, "subscribe & save to DB": the promotion, then the save
Phase4(ph, c, sendOk, now, failAt, readOk) ==
  SaveStep(PromoteStep(ph, sendOk), c, now, failAt, readOk)

\* runFullScan, Phase 4, after the last options await and up to the return,
\* without an await. sendOk: whether the socket accepts sends; dt: the time
\* that passed since the clock was last read; failAt: the statement of the
\* save that fails, if any; readOk: whether the getLatestCandidates call
\* after the save succeeds
Finish(c, sendOk, dt, failAt, readOk) ==
  LET s   == scan[c]
      now == clock + dt
      ph  == Phase4([s     |-> s,
                     mgr   |-> Manager,
                     db    |-> [squeezeCandidates |-> squeezeCandidates, history |-> history],
                     threw |-> FALSE],
                    c, sendOk, now, failAt, readOk)
  IN  /\ s.pc = "options"
      /\ s.optIdx = Len(s.results) + 1
      /\ failAt \in 0..(Len(s.results) + 1)
      /\ SetManager(ph.mgr)
      /\ UNCHANGED svcVars
      /\ squeezeCandidates' = ph.db.squeezeCandidates
      /\ history' = ph.db.history
      /\ IF ph.threw
           THEN /\ scan' = [scan EXCEPT ![c] = Abort(ph.s, "promote")]
                /\ clock' = clock
           ELSE /\ scan' = [scan EXCEPT ![c] = [ph.s EXCEPT !.pc = "done"]]
                /\ clock' = now

(***************************************************************************)
(* finnhubService.cjs: fhLimiter, a Bottleneck limiter with a reservoir    *)
(* that is reset every reservoirRefreshInterval and with no highWater, so  *)
(* that no job is ever rejected for lack of capacity                       *)
(***************************************************************************)

\* new Bottleneck({reservoir, reservoirRefreshAmount, ...}): a full
\* reservoir and no job. issued: the requests scheduled so far, numbered in
\* order; queued: the jobs waiting for capacity, oldest first; running: the
\* jobs taken against the reservoir whose fetch waits for its minTime slot
\* or is in flight, oldest first; done: the jobs whose fetch has settled;
\* drawn: the jobs taken against the reservoir since it was last reset;
\* depleted: the jobs scheduled on an empty reservoir; refilled: the jobs
\* that were waiting when the reservoir was reset
NewLimiter ==
  [reservoir |-> RESERVOIR,
   issued    |-> 0,
   queued    |-> <<>>,
   running   |-> <<>>,
   done      |-> {},
   drawn     |-> 0,
   depleted  |-> {},
   refilled  |-> {}]

\* Faulty variant of Drain: jobs are taken whatever the reservoir holds
Drain_ignoreReservoir(L) ==
  [L EXCEPT !.queued  = <<>>,
            !.running = L.running \o L.queued,
            !.drawn   = L.drawn + Len(L.queued)]

\* Faulty variant of Drain: a job that finds no capacity is discarded
Drain_dropOverflow(L) ==
  LET n == Min(L.reservoir, Len(L.queued))
  IN  [L EXCEPT !.reservoir = L.reservoir - n,
                !.queued    = <<>>,
                !.running   = L.running \o SubSeq(L.queued, 1, n),
                !.drawn     = L.drawn + n]

\* The limiter drains its queue: while the reservoir holds a unit, the
\* oldest waiting job is taken against it
Drain(L) ==
  LET n == Min(L.reservoir, Len(L.queued))
  IN  [L EXCEPT !.reservoir = L.reservoir - n,
                !.queued    = SubSeq(L.queued, n + 1, Len(L.queued)),
                !.running   = L.running \o SubSeq(L.queued, 1, n),
                !.drawn     = L.drawn + n]

\* fhLimiter.schedule(() => fetchJSON(...)): the job is queued and the queue
\* is drained
Schedule ==
  /\ fhLimiter.issued < MaxRequests
  /\ LET id == fhLimiter.issued + 1
     IN  fhLimiter' =
           Drain([fhLimiter EXCEPT
                    !.issued   = id,
                    !.queued   = Append(fhLimiter.queued, id),
                    !.depleted = IF fhLimiter.reservoir = 0
                                   THEN fhLimiter.depleted \cup {id}
                                   ELSE fhLimiter.depleted])
  /\ UNCHANGED <<mgrVars, scan, dbVars, analysis, poller, fetched, calc, finnhub>>

\* reservoirRefreshInterval has passed: the reservoir is set to
\* reservoirRefreshAmount and the queue is drained
Refresh ==
  /\ fhLimiter' =
       Drain([fhLimiter EXCEPT !.reservoir = RESERVOIR,
                               !.drawn     = 0,
                               !.refilled  = fhLimiter.refilled \cup Range(fhLimiter.queued)])
  /\ UNCHANGED <<mgrVars, scan, dbVars, analysis, poller, fetched, calc, finnhub>>

\* the fetch of the oldest running job is made and settles, by resolving or
\* by rejecting
Execute ==
  /\ fhLimiter.running # <<>>
  /\ fhLimiter' = [fhLimiter EXCEPT !.running = Tail(fhLimiter.running),
                                    !.done    = fhLimiter.done \cup {Head(fhLimiter.running)}]
  /\ UNCHANGED <<mgrVars, scan, dbVars, analysis, poller, fetched, calc, finnhub>>

(***************************************************************************)
(* aiScoring.cjs and scannerController.cjs: analyzeMetrics. Percentages    *)
(* and RSI are whole numbers, momentum is in thousandths (0.03 is 30) and  *)
(* prices are in cents                                                     *)
(***************************************************************************)

\* null, for a price
NULL == -1

\* undefined, for a text of the advisory response
Undefined == <<>>

\* analyzeSqueezeCandidate({rsi, shortFloat, volumeSpike, momentum})
analyzeSqueezeCandidate(d) ==
  LET s1 == IF d.shortFloat > 20 THEN 2 ELSE 0
      s2 == s1 + (IF d.rsi < 40 THEN 1 ELSE 0)
      s3 == s2 + (IF d.volumeSpike THEN 2 ELSE 0)
      s4 == s3 + (IF d.momentum > 30 THEN 1 ELSE 0)
  IN  [isCandidate |-> s4 >= 4, score |-> s4]

\* analyzeEarlySetup({rsi, shortFloat, volumeSpike, momentum})
analyzeEarlySetup(d) ==
  LET s1 == IF d.shortFloat > 15 THEN 2 ELSE 0
      s2 == s1 + (IF d.rsi > 30 /\ d.rsi < 45 THEN 2 ELSE 0)
      s3 == s2 + (IF ~d.volumeSpike THEN 1 ELSE 0)
      s4 == s3 + (IF d.momentum > 10 /\ d.momentum < 30 THEN 1 ELSE 0)
  IN  [isEarlyCandidate |-> s4 >= 4, setupScore |-> s4]

\* classifySignal({score, earlyCandidate, rsi, momentum})
classifySignal(score, earlyCandidate, rsi, momentum) ==
  IF score >= 4 THEN "Squeeze Potential"
  ELSE IF earlyCandidate THEN "Early Watch"
  ELSE IF rsi < 40 /\ momentum > 30 THEN "Buy Signal"
  ELSE IF rsi > 70 \/ momentum < 0 THEN "Avoid"
  ELSE "Neutral"

\* generateSuggestion({rsi, momentum, volumeSpike, support, resistance,
\* price}): the phrases pushed, in order (joined by a blank in the source),
\* or the fallback phrase when none was pushed
generateSuggestion(d) ==
  LET a == IF d.rsi < 40 /\ d.momentum > 30 /\ d.volumeSpike
             THEN <<"Watch for entry near support.">>
           ELSE IF d.rsi > 70 THEN <<"Overbought - avoid entry.">>
           ELSE <<>>
      b == IF d.support # 0 /\ d.resistance # 0 /\ d.price # 0
                /\ (d.resistance - d.price) * 100 > 10 * d.price
             THEN <<"Target: 10%+ upside.">>
             ELSE <<>>
      c == IF d.momentum > 50 THEN <<"Strong momentum - swing potential.">>
           ELSE IF d.momentum < -30 THEN <<"Weak momentum - stay cautious.">>
           ELSE <<>>
  IN  IF a \o b \o c = <<>> THEN <<"No strong signal detected.">> ELSE a \o b \o c

\* +(x * pct / 100).toFixed(2), on cents
Scaled(x, pct) == (x * pct + 50) \div 100

\* Faulty variant of PreScreen: only a full squeeze candidate passes
PreScreen_candidateOnly(aiResult, setupResult) ==
  aiResult.isCandidate \/ setupResult.isEarlyCandidate

\* analyzeMetrics, "3) Pre-screen": the negation of
\* aiResult.score < 2 && !setupResult.isEarlyCandidate
PreScreen(aiResult, setupResult) ==
  ~(aiResult.score < 2 /\ ~setupResult.isEarlyCandidate)

\* analyzeMetrics, "4) Static suggestion & hybrid defaults": the candidate as
\* it stands before the advisory call
Defaults(d) ==
  LET aiResult    == analyzeSqueezeCandidate(d)
      setupResult == analyzeEarlySetup(d)
      suggestion  == generateSuggestion(d)
      limitBuy    == IF d.support # 0 THEN Scaled(d.support, 102) ELSE NULL
      defaultSell == IF limitBuy # NULL /\ limitBuy # 0 THEN Scaled(limitBuy, 115) ELSE NULL
      defaultBuy  == IF d.momentum > 50 THEN d.price ELSE limitBuy
  IN  [kind                |-> "cand",
       score               |-> aiResult.score,
       earlyCandidate      |-> setupResult.isEarlyCandidate,
       setupScore          |-> setupResult.setupScore,
       suggestion          |-> suggestion,
       summary             |-> suggestion,
       action              |-> classifySignal(aiResult.score, setupResult.isEarlyCandidate,
                                              d.rsi, d.momentum),
       actionRationale     |-> suggestion,
       buyPrice            |-> defaultBuy,
       sellPrice           |-> defaultSell,
       isDayTradeCandidate |-> FALSE]

\* return null
NoCandidate ==
  [kind |-> "none", score |-> 0, earlyCandidate |-> FALSE, setupScore |-> 0,
   suggestion |-> <<>>, summary |-> <<>>, action |-> "none", actionRationale |-> <<>>,
   buyPrice |-> NULL, sellPrice |-> NULL, isDayTradeCandidate |-> FALSE]

\* Faulty variant of ApplyGpt: the exception of the advisory call is not caught
ApplyGpt_noCatch(cand, gpt) ==
  IF gpt.threw
    THEN [NoCandidate EXCEPT !.kind = "rejected"]
    ELSE [cand EXCEPT !.summary             = gpt.explanation,
                      !.action              = gpt.action,
                      !.actionRationale     = gpt.actionRationale,
                      !.buyPrice            = IF gpt.buyPrice # NULL THEN gpt.buyPrice ELSE @,
                      !.sellPrice           = IF gpt.sellPrice # NULL THEN gpt.sellPrice ELSE @,
                      !.isDayTradeCandidate = gpt.isDayTradeCandidate]

\* analyzeMetrics, "5) GPT-driven analysis", after the await: the response
\* overrides the defaults (the prices only when it gives them); an exception
\* is caught and logged and leaves the defaults
ApplyGpt(cand, gpt) ==
  IF gpt.threw
    THEN cand
    ELSE [cand EXCEPT !.summary             = gpt.explanation,
                      !.action              = gpt.action,
                      !.actionRationale     = gpt.actionRationale,
                      !.buyPrice            = IF gpt.buyPrice # NULL THEN gpt.buyPrice ELSE @,
                      !.sellPrice           = IF gpt.sellPrice # NULL THEN gpt.sellPrice ELSE @,
                      !.isDayTradeCandidate = gpt.isDayTradeCandidate]

\* no analyzeMetrics call yet
NoAnalysis ==
  [pc |-> "idle",
   data |-> [shortFloat |-> 0, rsi |-> 0, volumeSpike |-> FALSE, momentum |-> 0,
             support |-> 0, resistance |-> 0, price |-> 0],
   gptCalled |-> FALSE,
   gpt |-> "none",
   result |-> NoCandidate]

\* the merged metrics records analyzeMetrics is given in the model; support,
\* resistance or price 0: the field is missing
MetricsInputs ==
  [shortFloat  : {5, 18, 25},
   rsi         : {25, 35, 42, 60, 75},
   volumeSpike : BOOLEAN,
   momentum    : {-50, 0, 20, 50, 60},
   support     : {0, 1000},
   resistance  : {1200},
   price       : {0, 1050, 1150}]

\* what the advisory call can do: throw (network error, malformed
\* function_call arguments), or return an object whose fields are those of
\* the parsed arguments, any of which may be missing
GptOutcomes ==
  {[threw |-> TRUE, explanation |-> Undefined, action |-> "undefined",
    actionRationale |-> Undefined, buyPrice |-> NULL, sellPrice |-> NULL,
    isDayTradeCandidate |-> FALSE]}
  \cup
  [threw : {FALSE}, explanation : {<<"gpt explanation">>}, action : {"Buy", "Hold"},
   actionRationale : {<<"gpt rationale">>}, buyPrice : {NULL, 990},
   sellPrice : {NULL, 1310}, isDayTradeCandidate : BOOLEAN]
  \cup
  {[threw |-> FALSE, explanation |-> Undefined, action |-> "undefined",
    actionRationale |-> Undefined, buyPrice |-> NULL, sellPrice |-> NULL,
    isDayTradeCandidate |-> FALSE]}

\* Faulty variant of NeedsAdvisory: every record that passed the pre-screen
\* is sent to the advisory service
NeedsAdvisory_always(aiResult) == TRUE

\* analyzeMetrics, "5) GPT-driven analysis (if qualified)": the condition
NeedsAdvisory(aiResult) == aiResult.score >= 2

\* analyzeMetrics(d) up to its first await or its return: the pre-screen
\* returns null; a record that passes gets its defaults, and the advisory
\* call is made when aiResult.score >= 2
AnalyzeMetrics(d) ==
  /\ analysis.pc = "idle"
  /\ analysis' =
       IF ~PreScreen(analyzeSqueezeCandidate(d), analyzeEarlySetup(d))
         THEN [analysis EXCEPT !.pc = "returned", !.data = d, !.result = NoCandidate]
       ELSE IF NeedsAdvisory(analyzeSqueezeCandidate(d))
         THEN [analysis EXCEPT !.pc = "gpt", !.data = d, !.gptCalled = TRUE,
                               !.result = Defaults(d)]
       ELSE [analysis EXCEPT !.pc = "returned", !.data = d, !.result = Defaults(d)]
  /\ UNCHANGED <<mgrVars, scan, dbVars, fhLimiter, poller, fetched, calc, finnhub>>

\* the advisory call settles and analyzeMetrics returns
GptSettle(gpt) ==
  /\ analysis.pc = "gpt"
  /\ analysis' = [analysis EXCEPT !.pc     = "returned",
                                  !.gpt    = IF gpt.threw THEN "threw" ELSE "answered",
                                  !.result = ApplyGpt(analysis.result, gpt)]
  /\ UNCHANGED <<mgrVars, scan, dbVars, fhLimiter, poller, fetched, calc, finnhub>>

(***************************************************************************)
(* scannerController.cjs: the per-symbol fetch of the batch phase           *)
(***************************************************************************)

\* what getFinnhubIndicators(sym) can do: return null (the quote request
\* failed), throw, or return its payload, whose price is quote.c as it came
\* (0: the answer held no price)
FhAnswers ==
  {[kind |-> "null", price |-> 0], [kind |-> "threw", price |-> 0]}
    \cup [kind : {"payload"}, price : {0, 1050}]

\* what getYahooIndicators(sym) can do: return null (the quote failed or
\* held no regularMarketPrice, or no history came), throw, or return its
\* data with a history of bars bars
YhAnswers ==
  {[kind |-> "null", bars |-> 0], [kind |-> "threw", bars |-> 0]}
    \cup [kind : {"data"}, bars : {0, 2}]

NoRecord == [kind |-> "null", price |-> 0, bars |-> 0]

\* the async callback of batch.map for one symbol: null without Finnhub
\* data, null without Yahoo data or with an empty Yahoo history, null when
\* anything threw; else the merged record, with price: fhData.price
FetchOne(fh, yh) ==
  IF fh.kind = "threw" THEN NoRecord
  ELSE IF fh.kind = "null" THEN NoRecord
  ELSE IF yh.kind = "threw" THEN NoRecord
  ELSE IF yh.kind = "null" \/ yh.bars = 0 THEN NoRecord
  ELSE [kind |-> "record", price |-> fh.price, bars |-> yh.bars]

\* no fetch yet
NoFetch ==
  [pc |-> "idle", fh |-> [kind |-> "null", price |-> 0],
   yh |-> [kind |-> "null", bars |-> 0], result |-> NoRecord]

\* the fetch of one symbol settles
FetchSymbol(fh, yh) ==
  /\ fetched.pc = "idle"
  /\ fetched' = [pc |-> "done", fh |-> fh, yh |-> yh, result |-> FetchOne(fh, yh)]
  /\ UNCHANGED <<mgrVars, scan, dbVars, fhLimiter, analysis, poller, calc, finnhub>>

\* Phase 2b for that symbol: its record, if it has one, is analysed
AnalyzeFetched(d) ==
  /\ fetched.pc = "done"
  /\ fetched.result.kind = "record"
  /\ d.price = fetched.result.price
  /\ AnalyzeMetrics(d)

(***************************************************************************)
(* scheduler.cjs: triggerScanAndWait                                       *)
(***************************************************************************)

\* triggerScanAndWait has not been called
NoPoller ==
  [pc           |-> "idle",
   oldTimestamp |-> NULL,     \* let oldTimestamp
   waited       |-> 0,        \* the poll intervals slept through
   data         |-> <<>>,     \* the rows returned
   gaveUpAt     |-> "none"]   \* where its cycle was when the poller gave up

\* GET /candidates as the poller reads it: data[0]?.timestamp || null, and
\* null when the request fails
LatestTimestamp(rows, readOk) ==
  IF readOk /\ rows # <<>> THEN getLatestCandidates(rows, 20)[1].timestamp ELSE NULL

\* Faulty variant of PollStep: the poller gives up at the first poll that shows
\* nothing new
PollStep_giveUpAtOnce(P, rows, readOk, cyclePc) ==
  LET newTimestamp == LatestTimestamp(rows, readOk)
  IN  IF newTimestamp # NULL /\ newTimestamp # P.oldTimestamp
        THEN [P EXCEPT !.pc = "returned", !.waited = P.waited + 1,
                       !.data = getLatestCandidates(rows, 20)]
        ELSE [P EXCEPT !.pc = "timedOut", !.waited = P.waited + 1, !.gaveUpAt = cyclePc]

\* One round of the polling loop, from the end of the sleep to the next
\* sleep: the read; a timestamp that is there and differs from oldTimestamp
\* returns the rows; otherwise the loop condition is tested again and the
\* poller sleeps or throws its timeout error
PollStep(P, rows, readOk, cyclePc) ==
  LET newTimestamp == LatestTimestamp(rows, readOk)
  IN  IF newTimestamp # NULL /\ newTimestamp # P.oldTimestamp
        THEN [P EXCEPT !.pc = "returned", !.waited = P.waited + 1,
                       !.data = getLatestCandidates(rows, 20)]
      ELSE IF P.waited + 1 < MaxPolls
        THEN [P EXCEPT !.waited = P.waited + 1]
      ELSE [P EXCEPT !.pc = "timedOut", !.waited = P.waited + 1, !.gaveUpAt = cyclePc]

\* triggerScanAndWait is called: it records the latest timestamp and sends
\* the trigger request
PollerBegin(readOk) ==
  /\ poller.pc = "idle"
  /\ poller' = [poller EXCEPT !.pc = "requested",
                              !.oldTimestamp = LatestTimestamp(squeezeCandidates, readOk)]
  /\ UNCHANGED <<mgrVars, scan, dbVars, fhLimiter, analysis, fetched, calc, finnhub>>

\* the trigger request is served
PollerTriggers(c) ==
  /\ poller.pc = "requested"
  /\ Trigger(c)

\* the answer of the trigger request arrives and the polling loop is
\* entered: the first sleep begins
PollerAcknowledged(c) ==
  /\ poller.pc = "requested"
  /\ scan[c].response = "Scan started"
  /\ poller' = [poller EXCEPT !.pc = IF 0 < MaxPolls THEN "sleeping" ELSE "timedOut"]
  /\ UNCHANGED <<mgrVars, scan, dbVars, fhLimiter, analysis, fetched, calc, finnhub>>

\* a sleep ends and the poller polls
Poll(c, readOk) ==
  /\ poller.pc = "sleeping"
  /\ poller' = PollStep(poller, squeezeCandidates, readOk, scan[c].pc)
  /\ UNCHANGED <<mgrVars, scan, dbVars, fhLimiter, analysis, fetched, calc, finnhub>>

(***************************************************************************)
(* technicals.cjs. Prices are whole numbers; an RSI value is in hundredths *)
(* (100 is 10000), as toFixed(2) leaves it; an average is kept exactly, as *)
(* a gain and a loss numerator over one denominator.                        *)
(***************************************************************************)

NoCalc == [fn |-> "none"]

\* the close series calculateRSI is given in the model
PriceSeries == UNION {[1..n -> 1..MaxClose] : n \in 0..MaxSeries}

\* "First period gains/losses": the sums of the loop for (i = 1; i <= p; i++),
\* over the first k changes
RECURSIVE SeedSums(_, _)
SeedSums(prices, k) ==
  IF k = 0 THEN [gains |-> 0, losses |-> 0]
  ELSE LET s      == SeedSums(prices, k - 1)
           change == prices[k + 1] - prices[k]
       IN  IF change >= 0
             THEN [s EXCEPT !.gains = s.gains + change]
             ELSE [s EXCEPT !.losses = s.losses - change]

\* avgGain = gains / p, avgLoss = losses / p
SeedAvg(prices, p) ==
  LET s == SeedSums(prices, p)
  IN  [g |-> s.gains, l |-> s.losses, den |-> p]

\* Faulty variant of WilderStep: every change counts as a loss
WilderStep_lossOnAnyChange(avg, change, p) ==
  LET gain == IF change > 0 THEN change ELSE 0
      loss == IF change < 0 THEN -change ELSE change
  IN  [g   |-> avg.g * (p - 1) + gain * avg.den,
       l   |-> avg.l * (p - 1) + loss * avg.den,
       den |-> avg.den * p]

\* one pass of the Wilder smoothing loop:
\* avg = (avg * (p - 1) + gain or loss) / p
WilderStep(avg, change, p) ==
  LET gain == IF change > 0 THEN change ELSE 0
      loss == IF change < 0 THEN -change ELSE 0
  IN  [g   |-> avg.g * (p - 1) + gain * avg.den,
       l   |-> avg.l * (p - 1) + loss * avg.den,
       den |-> avg.den * p]

\* the averages after the pass for the close at position i (positions from 1)
RECURSIVE AvgAt(_, _, _)
AvgAt(prices, p, i) ==
  IF i = p + 1 THEN SeedAvg(prices, p)
  ELSE WilderStep(AvgAt(prices, p, i - 1), prices[i] - prices[i - 1], p)

\* 100 when avgLoss === 0, else parseFloat((100 - 100 / (1 + rs)).toFixed(2))
\* with rs = avgGain / avgLoss, which is 100 * g / (g + l) to the nearest
\* hundredth
RsiOf(avg) ==
  IF avg.l = 0 THEN 10000
  ELSE (2 * 10000 * avg.g + (avg.g + avg.l)) \div (2 * (avg.g + avg.l))

\* utils/technicals.cjs, calculateRSI(prices, period): the series, null
\* below index period; [] for a series shorter than period + 1
calculateRSI(prices, p) ==
  IF Len(prices) < p + 1 THEN <<>>
  ELSE [i \in 1..Len(prices) |->
          IF i <= p THEN NULL ELSE RsiOf(AvgAt(prices, p, i))]

\* server/utils/technicals.cjs, calculateRSI(prices, period): the one value
\* of the first period changes; null for a series shorter than period + 1
calculateRSI_single(prices, p) ==
  IF Len(prices) < p + 1 THEN NULL ELSE RsiOf(SeedAvg(prices, p))

\* a call of calculateRSI, in both modules
CalculateRSI(prices) ==
  /\ calc.fn = "none"
  /\ calc' = [fn     |-> "calculateRSI",
              prices |-> prices,
              series |-> calculateRSI(prices, period),
              single |-> calculateRSI_single(prices, period)]
  /\ UNCHANGED <<mgrVars, scan, dbVars, fhLimiter, analysis, poller, fetched, finnhub>>

(***************************************************************************)
(* aiScoring.cjs: norm. Its result is kept exactly, as a fraction.         *)
(***************************************************************************)

Frac(n, d) == [num |-> n, den |-> d]

\* a <= b and a = b for fractions with positive denominators
FracLeq(a, b) == a.num * b.den <= b.num * a.den
FracEq(a, b) == a.num * b.den = b.num * a.den

\* Faulty variant of norm: the result is not clamped at the upper end
norm_unclamped(x, min, max) ==
  IF x = NULL THEN Frac(0, 1)
  ELSE IF x <= min THEN Frac(0, 1)
  ELSE IF max <= min THEN Frac(1, 1)
  ELSE Frac(x - min, max - min)

\* norm(x, min, max)
norm(x, min, max) ==
  IF x = NULL THEN Frac(0, 1)
  ELSE IF x <= min THEN Frac(0, 1)
  ELSE IF x >= max THEN Frac(1, 1)
  ELSE Frac(x - min, max - min)

\* the values norm is given in the model: null or a number
NormValues == {NULL} \cup (0..MaxNorm)

\* two calls of norm with the same ends
Norm(x, y, min, max) ==
  /\ calc.fn = "none"
  /\ calc' = [fn |-> "norm", x |-> x, y |-> y, min |-> min, max |-> max,
              ofX |-> norm(x, min, max), ofY |-> norm(y, min, max)]
  /\ UNCHANGED <<mgrVars, scan, dbVars, fhLimiter, analysis, poller, fetched, finnhub>>

(***************************************************************************)
(* finnhubService.cjs: getFinnhubIndicators and its cache                  *)
(***************************************************************************)

\* 5 * 60 * 1000: the lifetime of a cache entry, in milliseconds
CACHE_TTL == 5 * 60 * 1000

CacheSymbols == {Whitelist[1], Whitelist[2]}

FhCalls == 1..MaxFhCalls

\* no cache[symbol]
NoEntry == [ts |-> NULL, data |-> NULL]

\* a getFinnhubIndicators call that is not running
NoFhCall ==
  [pc       |-> "idle",
   symbol   |-> NoSymbol,
   now      |-> 0,                \* const now = Date.now()
   seen     |-> NoEntry,          \* cache[symbol] as the call found it
   requests |-> 0,                \* provider requests the call has issued
   result   |-> [kind |-> "none", fetchedAt |-> NULL]]

\* let cache = {} (no cache file), and no call
NewFinnhub ==
  [cache |-> [s \in CacheSymbols |-> NoEntry],
   calls |-> [k \in FhCalls |-> NoFhCall]]

\* Faulty variant of Fresh: an entry never expires
Fresh_noExpiry(entry, now) == entry.ts # NULL

\* cache[symbol] && now - cache[symbol].ts < 5 * 60 * 1000
Fresh(entry, now) == entry.ts # NULL /\ now - entry.ts < CACHE_TTL

\* the payload a call assembles, named by the time of the call
Payload(now) == [kind |-> "payload", fetchedAt |-> now]

\* getFinnhubIndicators(symbol) up to its first await or its return: a
\* fresh entry is returned as it is; otherwise the quote request is handed
\* to the limiter
FhBegin(k, symbol) ==
  LET entry == finnhub.cache[symbol]
      call  == [NoFhCall EXCEPT !.symbol = symbol, !.now = clock, !.seen = entry]
  IN  /\ finnhub.calls[k].pc = "idle"
      /\ finnhub' = [finnhub EXCEPT !.calls[k] =
           IF Fresh(entry, clock)
             THEN [call EXCEPT !.pc = "returned", !.result = Payload(entry.data)]
             ELSE [call EXCEPT !.pc = "quote", !.requests = 1]]
      /\ UNCHANGED <<mgrVars, scan, dbVars, fhLimiter, analysis, poller, fetched, calc>>

\* the quote request settles: a failure (network error, status not ok) is
\* caught and the call returns null; an answer that is no object makes
\* quote.c throw and the call rejects; else the call goes on to the history,
\* the fundamentals and the news
FhQuoteSettle(k, outcome) ==
  LET call == finnhub.calls[k]
  IN  /\ call.pc = "quote"
      /\ finnhub' = [finnhub EXCEPT !.calls[k] =
           IF outcome = "failed"
             THEN [call EXCEPT !.pc = "returned", !.result = [kind |-> "null", fetchedAt |-> NULL]]
           ELSE IF outcome = "noObject"
             THEN [call EXCEPT !.pc = "returned", !.result = [kind |-> "rejected", fetchedAt |-> NULL]]
           ELSE [call EXCEPT !.pc = "rest", !.requests = call.requests + 1]]
      /\ UNCHANGED <<mgrVars, scan, dbVars, fhLimiter, analysis, poller, fetched, calc>>

\* the history, fundamentals and news requests have settled (their
\* failures are caught): the payload is stored under the time the call
\* began and returned; an exception outside the try blocks rejects the call
FhStore(k, threw) ==
  LET call == finnhub.calls[k]
  IN  /\ call.pc = "rest"
      /\ finnhub' =
           IF threw
             THEN [finnhub EXCEPT !.calls[k] =
                     [call EXCEPT !.pc = "returned", !.requests = call.requests + 2,
                                  !.result = [kind |-> "rejected", fetchedAt |-> NULL]]]
             ELSE [finnhub EXCEPT
                     !.cache[call.symbol] = [ts |-> call.now, data |-> call.now],
                     !.calls[k] = [call EXCEPT !.pc = "returned",
                                               !.requests = call.requests + 2,
                                               !.result = Payload(call.now)]]
      /\ UNCHANGED <<mgrVars, scan, dbVars, fhLimiter, analysis, poller, fetched, calc>>

\* the caller has taken the result; the next call can be made
FhTaken(k) ==
  /\ finnhub.calls[k].pc = "returned"
  /\ finnhub' = [finnhub EXCEPT !.calls[k] = NoFhCall]
  /\ UNCHANGED <<mgrVars, scan, dbVars, fhLimiter, analysis, poller, fetched, calc>>

\* half the lifetime of a cache entry passes
CacheTick ==
  /\ clock < MaxCacheTicks * (CACHE_TTL \div 2)
  /\ clock' = clock + CACHE_TTL \div 2
  /\ UNCHANGED <<mgrVars, scan, squeezeCandidates, history, svcVars>>

(***************************************************************************)
(* technicals.cjs: findVolumeSpikes; aiScoring.cjs: scoreTicker, the       *)
(* breakout and bounce signals. A volumeSpike is a JavaScript value, a     *)
(* boolean or a number; numbers compared with it are in tenths.            *)
(***************************************************************************)

JsBoolean(b) == [type |-> "boolean", b |-> b, n |-> 0]
JsNumber(n) == [type |-> "number", b |-> FALSE, n |-> n]

\* ToNumber of a boolean or a number, in tenths: true is 1, false is 0
ToNumber(v) == IF v.type = "boolean" THEN (IF v.b THEN 10 ELSE 0) ELSE v.n

\* a > b for prices that may be null (ToNumber(null) is 0)
PriceGt(a, b) == (IF a = NULL THEN 0 ELSE a) > (IF b = NULL THEN 0 ELSE b)

RECURSIVE SumSeq(_)
SumSeq(s) == IF s = <<>> THEN 0 ELSE Head(s) + SumSeq(Tail(s))

\* findVolumeSpikes(volumes, factor = 1.5): false for fewer than two bars,
\* else latest > 1.5 * avg of the bars before it, a boolean
findVolumeSpikes(volumes) ==
  IF Len(volumes) < 2 THEN JsBoolean(FALSE)
  ELSE LET latest == volumes[Len(volumes)]
           before == SubSeq(volumes, 1, Len(volumes) - 1)
       IN  JsBoolean(2 * latest * Len(before) > 3 * SumSeq(before))

\* Faulty variant of Bounce: the spike is compared with >= 1
Bounce_atLeastOne(price, support, volumeSpike) ==
  PriceGt(price, support) /\ ToNumber(volumeSpike) >= 10

\* const breakout = price > resistance && volumeSpike > 1.5
Breakout(price, resistance, volumeSpike) ==
  PriceGt(price, resistance) /\ ToNumber(volumeSpike) > 15

\* const bounce = price > support && volumeSpike > 1
Bounce(price, support, volumeSpike) ==
  PriceGt(price, support) /\ ToNumber(volumeSpike) > 10

\* scoreTicker(data), as far as breakout and bounce go: the two signals,
\* their terms of totalScore and their reasons
scoreTicker(d) ==
  LET breakout == Breakout(d.price, d.resistance, d.volumeSpike)
      bounce   == Bounce(d.price, d.support, d.volumeSpike)
  IN  [breakout |-> breakout,
       bounce   |-> bounce,
       terms    |-> 2 * (IF breakout THEN 1 ELSE 0) + 2 * (IF bounce THEN 1 ELSE 0),
       reasons  |-> (IF breakout THEN <<"Price breakout on volume">> ELSE <<>>)
                      \o (IF bounce THEN <<"Support bounce on volume">> ELSE <<>>)]

VolumeSeries == UNION {[1..n -> 1..MaxVolume] : n \in 0..MaxVolumes}

\* the volumeSpike of a record: what findVolumeSpikes gave, or a ratio
VolumeSpikes ==
  {findVolumeSpikes(volumes) : volumes \in VolumeSeries}
    \cup {JsNumber(n) : n \in {0, 10, 12, 20}}

\* the records scoreTicker is given in the model
TickerInputs ==
  [price       : {NULL, 900, 1020, 1100, 1220, 1300},
   support     : {NULL, 1000, 1050},
   resistance  : {NULL, 1200, 1250},
   volumeSpike : VolumeSpikes]

\* a call of scoreTicker
ScoreTicker(d) ==
  /\ calc.fn = "none"
  /\ calc' = [fn |-> "scoreTicker", data |-> d, out |-> scoreTicker(d)]
  /\ UNCHANGED <<mgrVars, scan, dbVars, fhLimiter, analysis, poller, fetched, finnhub>>

(***************************************************************************)
(* Specifications                                                          *)
(***************************************************************************)

\* subscriptionManager.ensure(symbol) called on the process-wide instance
EnsureCall(symbol, unsubOk, subOk) ==
  /\ SetManager(EnsureOn(Manager, symbol, unsubOk, subOk))
  /\ UNCHANGED <<scan, dbVars, svcVars>>

Init ==
  /\ MgrInit
  /\ scan = [c \in Cycles |-> IdleScan]
  /\ squeezeCandidates = <<>>
  /\ history = <<>>
  /\ clock = 0
  /\ fhLimiter = NewLimiter
  /\ analysis = NoAnalysis
  /\ poller = NoPoller
  /\ fetched = NoFetch
  /\ calc = NoCalc
  /\ finnhub = NewFinnhub

\* Any caller, any symbol, any outcome of the two socket sends
MgrNext ==
  \E symbol \in Symbols, unsubOk \in BOOLEAN, subOk \in BOOLEAN :
    EnsureCall(symbol, unsubOk, subOk)

\* The manager under arbitrary ensure() calls
SpecManager == Init /\ [][MgrNext]_vars

Next ==
  \E c \in Cycles :
    \/ Trigger(c)
    \/ \E n \in 0..MaxUniverse : UniverseDone(c, n)
    \/ UniverseThrows(c)
    \/ \E k \in 1..MaxUniverse, status \in {"ok", "null", "threw"} : FetchSettle(c, k, status)
    \/ BatchDone(c)
    \/ PauseElapsed(c)
    \/ \E k \in 1..MaxUniverse, o \in Outcomes : TaskSettle(c, k, o)
    \/ AnalysisDone(c)
    \/ OptionsSettle(c)
    \/ \E sendOk \in BOOLEAN, dt \in {0, 1},
          failAt \in 0..(Len(scan[c].results) + 1), readOk \in BOOLEAN :
         Finish(c, sendOk, dt, failAt, readOk)

\* The scan cycles, triggered one after another and running concurrently
Spec == Init /\ [][Next]_vars

AnalyzeNext ==
  \/ \E d \in MetricsInputs : AnalyzeMetrics(d)
  \/ \E gpt \in GptOutcomes : GptSettle(gpt)

\* One analyzeMetrics call on any metrics record, with any outcome of the
\* advisory call
SpecAnalyze == Init /\ [][AnalyzeNext]_vars

\* a step of cycle c after its trigger
CycleStep(c) ==
  \/ \E n \in 0..MaxUniverse : UniverseDone(c, n)
  \/ UniverseThrows(c)
  \/ \E k \in 1..MaxUniverse, status \in {"ok", "null", "threw"} : FetchSettle(c, k, status)
  \/ BatchDone(c)
  \/ PauseElapsed(c)
  \/ \E k \in 1..MaxUniverse, o \in Outcomes : TaskSettle(c, k, o)
  \/ AnalysisDone(c)
  \/ OptionsSettle(c)
  \/ \E sendOk \in BOOLEAN, dt \in {0, 1},
        failAt \in 0..(Len(scan[c].results) + 1), readOk \in BOOLEAN :
       Finish(c, sendOk, dt, failAt, readOk)

PollerNext ==
  \/ \E readOk \in BOOLEAN : PollerBegin(readOk)
  \/ PollerTriggers(1)
  \/ PollerAcknowledged(1)
  \/ \E readOk \in BOOLEAN : Poll(1, readOk)
  \/ CycleStep(1)

\* Phase 4 of cycle c is all that is left to run
FinishEnabled(c) ==
  scan[c].pc = "options" /\ scan[c].optIdx = Len(scan[c].results) + 1

\* Every pending step of cycle c is eventually taken: provider calls,
\* timers and tasks settle and the event loop runs the continuations. The
\* last conjunct is the weak fairness of Finish written with its enabling
\* condition: only Finish leaves a state in which it is enabled
CycleFairness(c) ==
  /\ WF_vars(\E n \in 0..MaxUniverse : UniverseDone(c, n))
  /\ WF_vars(\E k \in 1..MaxUniverse, status \in {"ok", "null", "threw"} :
               FetchSettle(c, k, status))
  /\ WF_vars(BatchDone(c))
  /\ WF_vars(PauseElapsed(c))
  /\ WF_vars(\E k \in 1..MaxUniverse, o \in Outcomes : TaskSettle(c, k, o))
  /\ WF_vars(AnalysisDone(c))
  /\ WF_vars(OptionsSettle(c))
  /\ []<>(~FinishEnabled(c))

\* One triggerScanAndWait() call and the cycle it triggers, whose pending
\* steps are eventually taken
SpecPoller ==
  /\ Init
  /\ [][PollerNext]_vars
  /\ CycleFairness(1)

SymbolNext ==
  \/ \E fh \in FhAnswers, yh \in YhAnswers : FetchSymbol(fh, yh)
  \/ \E d \in MetricsInputs : AnalyzeFetched(d)
  \/ \E gpt \in GptOutcomes : GptSettle(gpt)

\* One symbol of a cycle: its fetch, then the analysis of its record
SpecSymbol == Init /\ [][SymbolNext]_vars

CacheNext ==
  \/ \E k \in FhCalls, symbol \in CacheSymbols : FhBegin(k, symbol)
  \/ \E k \in FhCalls, outcome \in {"failed", "noObject", "ok"} : FhQuoteSettle(k, outcome)
  \/ \E k \in FhCalls, threw \in BOOLEAN : FhStore(k, threw)
  \/ \E k \in FhCalls : FhTaken(k)
  \/ CacheTick

\* getFinnhubIndicators calls, overlapping or one after another, over time
SpecCache == Init /\ [][CacheNext]_vars

ScoreNext == \E d \in TickerInputs : ScoreTicker(d)

\* scoreTicker on every record of the model
SpecScore == Init /\ [][ScoreNext]_vars

RSINext == \E prices \in PriceSeries : CalculateRSI(prices)

\* calculateRSI on every close series of the model
SpecRSI == Init /\ [][RSINext]_vars

NormNext ==
  \E x \in NormValues, y \in NormValues, min \in 0..MaxNorm, max \in 0..MaxNorm :
    Norm(x, y, min, max)

\* norm on every pair of values and every pair of ends of the model
SpecNorm == Init /\ [][NormNext]_vars

LimiterNext == Schedule \/ Refresh \/ Execute

\* The quote limiter under any callers, with its refresh timer running and
\* every fetch settling
SpecLimiter ==
  /\ Init
  /\ [][LimiterNext]_vars
  /\ WF_vars(Refresh)
  /\ WF_vars(Execute)

\* runFullScan at the end of its batch loop, having fetched a record for
\* each of its m tickers
FetchedAll(m) ==
  LET B == BatchLoop(0, m, BATCH_SIZE, [batches |-> 0, pauses |-> 0])
  IN  [IdleScan EXCEPT !.response   = "Scan started",
                       !.tickers    = SubSeq(Whitelist, 1, m),
                       !.i          = B.batches * BATCH_SIZE,
                       !.fetch      = [k \in 1..m |-> "ok"],
                       !.starts     = [k \in 1..m |-> 1],
                       !.allMetrics = SubSeq(Whitelist, 1, m),
                       !.batches    = B.batches,
                       !.pauses     = B.pauses]

\* The first cycle enters Phase 2b with up to MaxTasks records
PoolInit ==
  /\ MgrInit
  /\ \E m \in 0..MaxTasks :
       scan = [c \in Cycles |-> IF c = 1 THEN StartAnalysis(FetchedAll(m)) ELSE IdleScan]
  /\ squeezeCandidates = <<>>
  /\ history = <<>>
  /\ clock = 0
  /\ fhLimiter = NewLimiter
  /\ analysis = NoAnalysis
  /\ poller = NoPoller
  /\ fetched = NoFetch
  /\ calc = NoCalc
  /\ finnhub = NewFinnhub

PoolNext ==
  \/ \E k \in 1..MaxTasks, o \in Outcomes : TaskSettle(1, k, o)
  \/ AnalysisDone(1)

\* The analysis phase of one cycle, in which every running analyzeMetrics
\* task terminates
SpecPool ==
  /\ PoolInit
  /\ [][PoolNext]_vars
  /\ \A k \in 1..MaxTasks : WF_vars(\E o \in Outcomes : TaskSettle(1, k, o))

\* runFullScan at the end of its options loop, every one of its m records
\* having given a candidate, with the total scores given
AnalysedAll(m, scores) ==
  LET s == [StartAnalysis(FetchedAll(m)) EXCEPT
              !.task       = [k \in 1..m |-> "cand"],
              !.totalScore = scores]
  IN  [s EXCEPT !.results = Candidates(s),
                !.optIdx  = m + 1,
                !.pc      = "options"]

\* The first cycle is about to promote up to limit + 1 candidates
PromoteInit ==
  /\ MgrInit
  /\ \E m \in 0..(limit + 1) : \E scores \in [1..m -> Scores] :
       scan = [c \in Cycles |-> IF c = 1 THEN AnalysedAll(m, scores) ELSE IdleScan]
  /\ squeezeCandidates = <<>>
  /\ history = <<>>
  /\ clock = 0
  /\ fhLimiter = NewLimiter
  /\ analysis = NoAnalysis
  /\ poller = NoPoller
  /\ fetched = NoFetch
  /\ calc = NoCalc
  /\ finnhub = NewFinnhub

\* ensure() calls of earlier promotions, in any number and with any outcome
\* of their sends, then Phase 4 of the cycle with a write that succeeds
PromoteNext ==
  \/ /\ ~scan[1].promoted
     /\ MgrNext
  \/ \E sendOk \in BOOLEAN : Finish(1, sendOk, 1, 0, TRUE)

\* The promotion of one cycle into a manager in any state earlier
\* promotions can leave
SpecPromote == PromoteInit /\ [][PromoteNext]_vars

(***************************************************************************)
(* Properties of the subscription manager                                  *)
(***************************************************************************)

NoDuplicates(q) == \A j, k \in 1..Len(q) : q[j] = q[k] => j = k

Without(q, x) == SelectSeq(q, LAMBDA y : y # x)

Ensured == lastCall.symbol # NoSymbol

\* the last ensure() found its symbol tracked
WasTracked == Ensured /\ lastCall.symbol \in lastCall.preSet

\* the last ensure() found its symbol absent and the manager at capacity
WasAbsentAtCapacity ==
  /\ Ensured
  /\ lastCall.symbol \notin lastCall.preSet
  /\ Len(lastCall.preQueue) >= limit

CallsOf(fn) ==
  SelectSeq(lastCall.calls, LAMBDA c : c.fn = fn)

\* C1: after any sequence of ensure() calls, whatever the symbols and
\* whichever stream calls fail, the queue has no duplicates, the queue and
\* the set have the same size and the same members, and the size is at most
\* limit.
C1_QueueSetInvariant ==
  /\ NoDuplicates(queue)
  /\ Len(queue) = Cardinality(set)
  /\ \A s \in Symbols : (s \in Range(queue)) <=> (s \in set)
  /\ Len(queue) <= limit

\* a full manager has evicted its oldest symbol for an ensure() in which the
\* unsubscribe and the subscribe call both threw
C1_Witness ==
  /\ WasAbsentAtCapacity
  /\ \A k \in 1..Len(lastCall.calls) : lastCall.calls[k].threw
  /\ Len(lastCall.calls) = 2
  /\ Len(queue) = limit - 1

\* C2 as stated: ensure(s) for an absent s at capacity evicts the front
\* symbol, issues one unsubscribe for it and one subscribe for s, and
\* appends s at the back, whatever the outcome of the subscribe call.
C2_Original ==
  WasAbsentAtCapacity =>
    /\ Len(CallsOf("unsubscribe")) = 1
    /\ CallsOf("unsubscribe")[1].symbol = Head(lastCall.preQueue)
    /\ Len(CallsOf("subscribe")) = 1
    /\ CallsOf("subscribe")[1].symbol = lastCall.symbol
    /\ queue = Append(Tail(lastCall.preQueue), lastCall.symbol)

\* C2 (amended): ensure(s) for an absent s at capacity evicts exactly the
\* front symbol of the queue, issues one unsubscribe for it and then one
\* subscribe for s, and appends s at the back when that subscribe call
\* succeeds; when it throws, the queue is left as the old queue without its
\* front symbol. With limit = 2, ensure(C) on [A, B] leaves [B, C] and A
\* unsubscribed at the stream when the two sends succeed.
C2_EvictsOldest ==
  WasAbsentAtCapacity =>
    /\ Len(lastCall.calls) = 2
    /\ lastCall.calls[1].fn = "unsubscribe"
    /\ lastCall.calls[1].symbol = Head(lastCall.preQueue)
    /\ lastCall.calls[2].fn = "subscribe"
    /\ lastCall.calls[2].symbol = lastCall.symbol
    /\ Head(lastCall.preQueue) \notin set
    /\ queue = IF lastCall.calls[2].threw
                 THEN Tail(lastCall.preQueue)
                 ELSE Append(Tail(lastCall.preQueue), lastCall.symbol)
    /\ (/\ lastCall.preQueue = <<"A", "B">>
        /\ lastCall.symbol = "C"
        /\ ~lastCall.calls[1].threw
        /\ ~lastCall.calls[2].threw)
         => (queue = <<"B", "C">> /\ "A" \notin subscribed)

\* the example of the claim: ensure(C) on the full queue [A, B] gave [B, C]
C2_Witness ==
  /\ WasAbsentAtCapacity
  /\ lastCall.preQueue = <<"A", "B">>
  /\ lastCall.symbol = "C"
  /\ queue = <<"B", "C">>
  /\ "A" \notin subscribed

\* C3: ensure(s) for a tracked s moves s to the last position, keeps the
\* relative order of the other symbols, leaves the set and the size as they
\* were and issues no subscribe and no unsubscribe call.
C3_TouchOnly ==
  WasTracked =>
    /\ queue[Len(queue)] = lastCall.symbol
    /\ Without(queue, lastCall.symbol) = Without(lastCall.preQueue, lastCall.symbol)
    /\ set = lastCall.preSet
    /\ Len(queue) = Len(lastCall.preQueue)
    /\ lastCall.calls = <<>>
    /\ subscribed = lastCall.preSubscribed

\* a tracked symbol that was not the most recent one has been ensured again
C3_Witness ==
  /\ WasTracked
  /\ Len(lastCall.preQueue) = limit
  /\ Head(lastCall.preQueue) = lastCall.symbol
  /\ queue # lastCall.preQueue

\* C4: when the subscribe call of ensure(s) fails, s is in neither the queue
\* nor the set afterwards; a later ensure(s) whose subscribe call succeeds
\* leaves s tracked as the most recently used symbol.
C4_SubscribeFailureRetryable ==
  /\ (Ensured /\ Len(CallsOf("subscribe")) > 0 /\ CallsOf("subscribe")[1].threw)
       => (/\ lastCall.symbol \notin Range(queue)
           /\ lastCall.symbol \notin set
           /\ lastCall.symbol \in subFailed)
  /\ (Ensured /\ lastCall.retry
        /\ Len(CallsOf("subscribe")) > 0 /\ ~CallsOf("subscribe")[1].threw)
       => (/\ queue # <<>>
           /\ queue[Len(queue)] = lastCall.symbol
           /\ lastCall.symbol \in set
           /\ lastCall.symbol \notin subFailed)

\* a symbol whose subscribe had failed is ensured again and is now tracked
C4_Witness ==
  /\ Ensured
  /\ lastCall.retry
  /\ Len(CallsOf("subscribe")) = 1
  /\ ~CallsOf("subscribe")[1].threw
  /\ lastCall.symbol \in set

\* C5: when the unsubscribe call for the evicted symbol throws, the evicted
\* symbol is still removed from the queue and the set, no exception leaves
\* ensure(), and the subscribe of the new symbol is still attempted.
C5_EvictionSurvivesUnsubscribeFailure ==
  (Ensured /\ Len(CallsOf("unsubscribe")) > 0 /\ CallsOf("unsubscribe")[1].threw)
    => LET evicted == CallsOf("unsubscribe")[1].symbol
       IN  /\ evicted = Head(lastCall.preQueue)
           /\ evicted \notin Range(queue)
           /\ evicted \notin set
           /\ ~lastCall.threw
           /\ Len(CallsOf("subscribe")) = 1
           /\ CallsOf("subscribe")[1].symbol = lastCall.symbol

\* the unsubscribe of an eviction threw, the evicted symbol is gone from the
\* manager and the subscribe of the new symbol was called
C5_Witness ==
  /\ WasAbsentAtCapacity
  /\ Len(CallsOf("unsubscribe")) = 1
  /\ CallsOf("unsubscribe")[1].threw
  /\ Len(CallsOf("subscribe")) = 1
  /\ Head(lastCall.preQueue) \notin set

(***************************************************************************)
(* Properties of the scan cycle                                            *)
(***************************************************************************)

CeilDiv(n, B) == (n + B - 1) \div B

Max(a, b) == IF a > b THEN a ELSE b

\* the batch a ticker position belongs to, counted from 1
BatchOf(k) == ((k - 1) \div BATCH_SIZE) + 1

\* the batch loop has been left
FetchPhaseOver(s) ==
  \/ s.pc \in {"analyze", "options", "done"}
  \/ s.pc = "aborted" /\ s.abortedIn \in {"analysis", "promote"}

\* the ticker positions whose batch has been awaited
Awaited(s) ==
  IF s.pc = "fetching" THEN 1..s.i
  ELSE IF s.pc = "pause" THEN 1..Min(s.i + BATCH_SIZE, Len(s.tickers))
  ELSE 1..Len(s.tickers)

FailedFetches(s) == {k \in 1..Len(s.tickers) : s.fetch[k] \in {"null", "threw"}}

\* the symbols whose fetch gave a record, among the awaited batches, in order
OkSymbols(s) ==
  LET hit == SelectSeq([k \in 1..Len(s.tickers) |-> k],
                       LAMBDA k : k \in Awaited(s) /\ s.fetch[k] = "ok")
  IN  [j \in 1..Len(hit) |-> s.tickers[hit[j]]]

RowsOf(c) == SelectSeq(squeezeCandidates, LAMBDA r : r.cycle = c)

HistoryOf(c) == SelectSeq(history, LAMBDA r : r.cycle = c)

C7_Claim ==
  \A c \in Cycles :
    LET s == scan[c]
    IN  (\E k \in 1..Len(s.task) : s.task[k] = "rejected")
          => /\ s.pc # "aborted"
             /\ (s.pc = "done" /\ s.saved = "committed")
                  => \A k \in 1..Len(s.task) :
                       s.task[k] = "cand"
                         => \E j \in 1..Len(RowsOf(c)) :
                              RowsOf(c)[j].symbol = s.allMetrics[k]

\* C8: a cycle stores either all its candidate rows and one history row,
\* under one timestamp, or no row at all; when the universe fetch throws or
\* the write fails it stores nothing and logs the error, and the next
\* trigger starts a new cycle.
C8_AtomicPersistence ==
  \A c \in Cycles :
    LET s    == scan[c]
        rows == RowsOf(c)
        hist == HistoryOf(c)
    IN  /\ \/ rows = <<>> /\ hist = <<>>
           \/ /\ s.pc = "done"
              /\ s.saved = "committed"
              /\ Len(hist) = 1
              /\ hist[1].candidateCount = Len(rows)
              /\ Len(rows) = Len(s.results)
              /\ \A k \in 1..Len(rows) :
                   /\ rows[k].symbol = s.results[k].symbol
                   /\ rows[k].timestamp = hist[1].timestamp
        /\ (s.pc = "done" /\ s.saved = "committed") => Len(hist) = 1
        /\ (s.abortedIn = "universe" \/ s.saved = "rolledBack")
             => /\ rows = <<>>
                /\ hist = <<>>
                /\ s.log # "none"
                /\ s.pc \in {"aborted", "done"}
                /\ (c + 1 \in Cycles /\ scan[c + 1].pc = "idle") => ENABLED Trigger(c + 1)

\* the write of the first cycle failed with candidates to insert, and the
\* next cycle has stored a candidate
C8_Witness ==
  /\ scan[1].saved = "rolledBack"
  /\ scan[1].results # <<>>
  /\ scan[1].log = "saveResults error"
  /\ RowsOf(1) = <<>>
  /\ scan[2].saved = "committed"
  /\ RowsOf(2) # <<>>

\* the batch loop for 130 tickers in batches of 60, and for small universes
\* and batch sizes
C9_LoopCounts ==
  /\ BatchLoop(0, 130, 60, [batches |-> 0, pauses |-> 0]) = [batches |-> 3, pauses |-> 2]
  /\ \A n \in 0..12, B \in 1..5 :
       BatchLoop(0, n, B, [batches |-> 0, pauses |-> 0])
         = [batches |-> CeilDiv(n, B), pauses |-> Max(0, CeilDiv(n, B) - 1)]

\* C9: for n tickers and batch size B the fetch phase issues ceil(n/B)
\* batches and max(0, ceil(n/B) - 1) pauses, none after the last batch, and
\* starts the fetch of every ticker exactly once.
C9_BatchPacing ==
  /\ C9_LoopCounts
  /\ \A c \in Cycles :
       LET s == scan[c]
           n == Len(s.tickers)
       IN  /\ s.pc = "pause" => s.i + BATCH_SIZE < n
           /\ \A k \in 1..n : s.starts[k] <= 1
           /\ FetchPhaseOver(s)
                => /\ s.batches = CeilDiv(n, BATCH_SIZE)
                   /\ s.pauses = Max(0, CeilDiv(n, BATCH_SIZE) - 1)
                   /\ \A k \in 1..n : s.starts[k] = 1 /\ Settled(s.fetch[k])

\* a universe of more than one batch has been fetched
C9_Witness ==
  \E c \in Cycles :
    /\ FetchPhaseOver(scan[c])
    /\ Len(scan[c].tickers) > BATCH_SIZE
    /\ scan[c].batches = 2
    /\ scan[c].pauses = 1

\* the pauses of a cycle that have elapsed
PausesElapsed(s) == IF s.pc = "pause" THEN s.pauses - 1 ELSE s.pauses

\* C10: within a cycle a fetch of a batch has started only if every fetch of
\* the batches before it has settled and the pause after each of them has
\* elapsed.
C10_BatchOrdering ==
  \A c \in Cycles :
    LET s == scan[c]
    IN  \A k \in 1..Len(s.tickers) :
          s.fetch[k] # "notStarted"
            => /\ \A j \in 1..Len(s.tickers) : BatchOf(j) < BatchOf(k) => Settled(s.fetch[j])
               /\ PausesElapsed(s) >= BatchOf(k) - 1

\* a fetch of the second batch is in flight behind a first batch in which a
\* fetch failed
C10_Witness ==
  \E c \in Cycles :
    \E j, k \in 1..Len(scan[c].tickers) :
      /\ BatchOf(j) = 1
      /\ BatchOf(k) = 2
      /\ scan[c].fetch[j] = "threw"
      /\ scan[c].fetch[k] = "inFlight"

(***************************************************************************)
(* Properties of the analysis phase                                        *)
(***************************************************************************)

Running(s) == {k \in 1..Len(s.task) : s.task[k] = "running"}

Queued(s) == {k \in 1..Len(s.task) : s.task[k] = "queued"}

Ended(s) == {k \in 1..Len(s.task) : s.task[k] \in {"cand", "none", "rejected"}}

\* at most POOL_SIZE tasks run, the started tasks are a prefix of the
\* submitted ones, and no slot of the pool is idle while a task waits
C11_PoolInvariant ==
  \A c \in Cycles :
    LET s == scan[c]
    IN  /\ Cardinality(Running(s)) <= POOL_SIZE
        /\ \A j \in Queued(s), k \in 1..Len(s.task) : j < k => k \in Queued(s)
        /\ Queued(s) # {} => Cardinality(Running(s)) = POOL_SIZE

\* C11: in the analysis phase at most POOL_SIZE (5 in the source)
\* analyzeMetrics tasks are in flight at any moment, tasks are started in
\* submission order, and every submitted task is eventually started when
\* running tasks terminate.
C11_BoundedPool ==
  /\ []C11_PoolInvariant
  /\ \A c \in Cycles, k \in 1..MaxTasks :
       (k \in Queued(scan[c])) ~> (k \in Running(scan[c]) \cup Ended(scan[c]))

\* tasks complete out of order: a later task has ended while an earlier one
\* still runs, and a task that had to wait for a slot has been started
C11_Witness ==
  \E c \in Cycles :
    LET s == scan[c]
    IN  /\ \E j \in Running(s), k \in Ended(s) : j < k
        /\ \E h \in Running(s) : h > POOL_SIZE
        /\ Cardinality(Queued(s)) >= 1
        /\ Cardinality(Running(s)) = POOL_SIZE

(***************************************************************************)
(* Properties of the provider limiter                                      *)
(***************************************************************************)

Requests == 1..fhLimiter.issued

\* every scheduled request is in exactly one place, and the reservoir
\* accounts for the jobs drawn since its last reset
C12_LimiterInvariant ==
  LET L == fhLimiter
  IN  /\ \A id \in Requests :
           \/ id \in Range(L.queued) /\ id \notin Range(L.running) /\ id \notin L.done
           \/ id \notin Range(L.queued) /\ id \in Range(L.running) /\ id \notin L.done
           \/ id \notin Range(L.queued) /\ id \notin Range(L.running) /\ id \in L.done
      /\ Len(L.queued) + Len(L.running) + Cardinality(L.done) = L.issued
      /\ L.drawn <= RESERVOIR
      /\ L.drawn + L.reservoir = RESERVOIR
      /\ L.queued # <<>> => L.reservoir = 0
      /\ \A id \in L.depleted : id \in Range(L.queued) \/ id \in L.refilled

\* C12: a request scheduled through the limiter is never dropped: one
\* scheduled on an exhausted budget waits in the queue and runs after a
\* refill, every request is eventually executed, and no more than the budget
\* is started between two refills.
C12_NeverDropped ==
  /\ []C12_LimiterInvariant
  /\ \A id \in 1..MaxRequests : (id \in Requests) ~> (id \in fhLimiter.done)

\* a request scheduled on an exhausted budget has been executed after a
\* refill, behind the full budget of the interval before
C12_Witness ==
  /\ \E id \in fhLimiter.depleted : id \in fhLimiter.done /\ id \in fhLimiter.refilled
  /\ fhLimiter.issued > RESERVOIR

(***************************************************************************)
(* Properties of analyzeMetrics                                            *)
(***************************************************************************)

Bit(b) == IF b THEN 1 ELSE 0

\* the two scores as sums of weighted conditions
SqueezeScore(d) ==
  2 * Bit(d.shortFloat > 20) + Bit(d.rsi < 40) + 2 * Bit(d.volumeSpike) + Bit(d.momentum > 30)

EarlySetupScore(d) ==
  2 * Bit(d.shortFloat > 15) + 2 * Bit(30 < d.rsi /\ d.rsi < 45)
    + Bit(~d.volumeSpike) + Bit(10 < d.momentum /\ d.momentum < 30)

PassesGate(d) == SqueezeScore(d) >= 2 \/ EarlySetupScore(d) >= 4

Example(sf, rsi, spike, mom) ==
  [shortFloat |-> sf, rsi |-> rsi, volumeSpike |-> spike, momentum |-> mom,
   support |-> 1000, resistance |-> 1200, price |-> 1050]

\* C13: analyzeMetrics emits a candidate iff squeezeScore >= 2 or
\* earlySetupScore >= 4, the two scores being the weighted sums of the
\* claim; otherwise it returns no candidate and makes no advisory call.
\* shortFloat 25, rsi 35, spike, momentum 0.05 passes with squeezeScore >= 4;
\* shortFloat 5, rsi 60, no spike, momentum 0 is discarded.
C13_Gate ==
  /\ analysis.pc # "idle" =>
        LET d == analysis.data
        IN  /\ analyzeSqueezeCandidate(d).score = SqueezeScore(d)
            /\ analyzeEarlySetup(d).setupScore = EarlySetupScore(d)
            /\ analysis.pc = "gpt" => PassesGate(d)
            /\ analysis.pc = "returned" => (analysis.result.kind = "cand" <=> PassesGate(d))
            /\ ~PassesGate(d) => (~analysis.gptCalled /\ analysis.pc = "returned")
            /\ (d.shortFloat = 25 /\ d.rsi = 35 /\ d.volumeSpike /\ d.momentum = 50)
                 => (analysis.result.kind = "cand" /\ analysis.result.score >= 4)
  /\ analyzeSqueezeCandidate(Example(25, 35, TRUE, 50)).score >= 4
  /\ PreScreen(analyzeSqueezeCandidate(Example(25, 35, TRUE, 50)),
               analyzeEarlySetup(Example(25, 35, TRUE, 50)))
  /\ ~PreScreen(analyzeSqueezeCandidate(Example(5, 60, FALSE, 0)),
                analyzeEarlySetup(Example(5, 60, FALSE, 0)))

\* a record with squeezeScore below 2 was emitted as an early candidate
\* without an advisory call
C13_Witness ==
  /\ analysis.pc = "returned"
  /\ analysis.result.kind = "cand"
  /\ SqueezeScore(analysis.data) < 2
  /\ EarlySetupScore(analysis.data) >= 4
  /\ ~analysis.gptCalled

\* C14: when the advisory call fails for a gated symbol, the candidate is
\* still emitted and carries the rule-based defaults computed before the
\* call: action from classifySignal, summary and rationale equal to the
\* static suggestion, buyPrice = defaultBuy and sellPrice = defaultSell; the
\* call returns normally, so the failure aborts nothing.
C14_AdvisoryFailureKeepsDefaults ==
  (analysis.pc = "returned" /\ analysis.gpt = "threw") =>
    LET d == analysis.data
        r == analysis.result
        limitBuy == IF d.support # 0 THEN Scaled(d.support, 102) ELSE NULL
    IN  /\ r.kind = "cand"
        /\ r.action = classifySignal(SqueezeScore(d), EarlySetupScore(d) >= 4, d.rsi, d.momentum)
        /\ r.summary = generateSuggestion(d)
        /\ r.actionRationale = generateSuggestion(d)
        /\ r.suggestion = generateSuggestion(d)
        /\ r.buyPrice = IF d.momentum > 50 THEN d.price ELSE limitBuy
        /\ r.sellPrice = IF limitBuy # NULL THEN Scaled(limitBuy, 115) ELSE NULL
        /\ ~r.isDayTradeCandidate

\* the advisory call failed for a squeeze candidate with a support level,
\* which was emitted with its limit prices
C14_Witness ==
  /\ analysis.pc = "returned"
  /\ analysis.gpt = "threw"
  /\ analysis.gptCalled
  /\ analysis.result.kind = "cand"
  /\ analysis.result.action = "Squeeze Potential"
  /\ analysis.result.buyPrice = 1020
  /\ analysis.result.sellPrice = 1173

(***************************************************************************)
(* Properties of the end of the cycle                                      *)
(***************************************************************************)

\* ensure() calls the promotion of a cycle makes
PromoteCalls(s) == IF s.promoted THEN Min(limit, Len(s.results)) ELSE 0

TasksEnded(s, kind) == {k \in 1..Len(s.task) : s.task[k] = kind}

\* C16: a candidate is persisted with isTopPick = 1 iff its totalScore is at
\* least 8, and a symbol that fails the gate has no row among the rows of
\* its cycle: a universe [A, B] in which A scores 9 and B fails the gate
\* persists exactly A, flagged as top pick.
C16_TopPickPersisted ==
  \A c \in Cycles :
    LET s    == scan[c]
        rows == RowsOf(c)
    IN  /\ \A j \in 1..Len(rows) :
             /\ rows[j].isTopPick \in {0, 1}
             /\ rows[j].isTopPick = 1 <=> rows[j].totalScore >= 8
             /\ \E k \in TasksEnded(s, "cand") :
                  /\ s.allMetrics[k] = rows[j].symbol
                  /\ s.totalScore[k] = rows[j].totalScore
        /\ \A k \in TasksEnded(s, "none"), j \in 1..Len(rows) :
             rows[j].symbol # s.allMetrics[k]
        /\ s.saved = "committed"
             => \A k \in TasksEnded(s, "cand") :
                  \E j \in 1..Len(rows) : rows[j].symbol = s.allMetrics[k]
        /\ (/\ s.saved = "committed"
            /\ s.allMetrics = <<"A", "B">>
            /\ s.task = <<"cand", "none">>
            /\ s.totalScore[1] = 9)
             => (/\ Len(rows) = 1
                 /\ rows[1].symbol = "A"
                 /\ rows[1].isTopPick = 1)

\* the example of the claim: A scored 9, B failed the gate, and the cycle
\* stored one row, for A, flagged as top pick
C16_Witness ==
  \E c \in Cycles :
    /\ scan[c].saved = "committed"
    /\ scan[c].tickers = <<"A", "B">>
    /\ scan[c].task = <<"cand", "none">>
    /\ scan[c].totalScore[1] = 9
    /\ Len(RowsOf(c)) = 1
    /\ RowsOf(c)[1].symbol = "A"
    /\ RowsOf(c)[1].isTopPick = 1

Finished(s) == s.pc \in {"done", "aborted"}

\* a cycle is one that failed: it was aborted or its write was rolled back
Failed(s) == s.pc = "aborted" \/ s.saved = "rolledBack"

\* the answer is given when the cycle starts and is 'Scan started'
C17_Answered ==
  \A c \in Cycles :
    /\ scan[c].response \in {"none", "Scan started"}
    /\ scan[c].pc = "idle" <=> scan[c].response = "none"

\* the answer is given in a step that leaves the cycle unfinished, and no
\* later step changes it
C17_AnswerStep ==
  \A c \in Cycles :
    /\ scan[c].response # scan'[c].response
         => (scan[c].response = "none" /\ ~Finished(scan'[c]))
    /\ Finished(scan'[c]) => scan'[c].response = scan[c].response

\* C17: a trigger call answers 'Scan started' before the cycle it started
\* has finished, and the answer is the same whether that cycle later
\* succeeds or fails: the outcome shows only in the stored rows and the log.
C17_TriggerAcknowledged ==
  /\ []C17_Answered
  /\ [][C17_AnswerStep]_vars

\* both triggers were answered 'Scan started'; the first cycle failed with
\* an error in its log and the second stored its candidates
C17_Witness ==
  /\ scan[1].response = "Scan started"
  /\ scan[2].response = "Scan started"
  /\ Failed(scan[1])
  /\ scan[1].log # "none"
  /\ RowsOf(1) = <<>>
  /\ scan[2].pc = "done"
  /\ scan[2].saved = "committed"
  /\ RowsOf(2) # <<>>

(***************************************************************************)
(* Properties of the poller                                                *)
(***************************************************************************)

\* the poller gives up only after MaxPolls polls, and a cycle that saved
\* has stored a row for each of its candidates
C18_PollerInvariant ==
  /\ poller.pc = "timedOut" => (poller.waited = MaxPolls /\ poller.gaveUpAt # "idle")
  /\ poller.waited <= MaxPolls
  /\ (scan[1].pc = "done" /\ scan[1].saved = "committed")
       => Len(RowsOf(1)) = Len(scan[1].results)

\* a step of the poller changes nothing of the cycle, the database or the
\* subscriptions
C18_PollerStep ==
  poller' # poller => UNCHANGED <<scan, squeezeCandidates, history, mgrVars>>

NoPrice(f) ==
  \/ f.fh.kind = "payload" /\ f.fh.price = 0
  \/ f.fh.kind = "payload" /\ f.yh.kind = "null"

\* the price history fetched for the symbol is empty
EmptyHistory(f) ==
  f.fh.kind = "payload" /\ f.yh.kind = "data" /\ f.yh.bars = 0

\* C19 as stated: a symbol whose fetched metrics have no price or whose
\* price history is empty is excluded from the cycle: no candidate is
\* emitted for it.
C19_Claim ==
  (fetched.pc = "done" /\ (NoPrice(fetched) \/ EmptyHistory(fetched)))
    => analysis.result.kind # "cand"

\* what the code does hold to: a symbol without a Finnhub payload, without
\* Yahoo data or with an empty Yahoo history gets no record
C19_Excluded ==
  (fetched.pc = "done"
     /\ (fetched.fh.kind # "payload" \/ fetched.yh.kind # "data" \/ fetched.yh.bars = 0))
    => (fetched.result.kind = "null" /\ analysis.pc = "idle")

(***************************************************************************)
(* Properties of repeated ensure() calls                                   *)
(***************************************************************************)

\* none of the stream calls of the ensure() call r threw
StreamCallsSucceeded(r) ==
  \A k \in 1..Len(r.calls) : ~r.calls[k].threw

\* C20: ensure() is idempotent per symbol: when the stream calls of
\* ensure(s) succeeded, the next ensure() call, made for the same s, makes
\* no stream call and leaves the queue, the set and the stream's
\* subscriptions as the first call left them; the set does not grow past
\* the limit.
C20_EnsureIdempotent ==
  [][(/\ lastCall.symbol # NoSymbol
      /\ lastCall'.symbol = lastCall.symbol
      /\ StreamCallsSucceeded(lastCall))
       => (/\ queue' = queue
           /\ set' = set
           /\ subscribed' = subscribed
           /\ lastCall'.preQueue = queue
           /\ lastCall'.calls = <<>>
           /\ Cardinality(set') <= limit)]_vars

\* a full manager after ensure(s) was called for the symbol at the back of
\* the queue: no stream call was made and the queue is the one before
C20_Witness ==
  /\ Len(queue) = limit
  /\ lastCall.symbol = queue[Len(queue)]
  /\ lastCall.calls = <<>>
  /\ lastCall.preQueue = queue
  /\ lastCall.preSet = set
  /\ lastCall.preSubscribed = subscribed

(***************************************************************************)
(* Properties of the technical indicators                                  *)
(***************************************************************************)

StrictlyIncreasing(prices) ==
  \A i \in 1..(Len(prices) - 1) : prices[i] < prices[i + 1]

\* C21: for a strictly increasing close series of length >= period + 1,
\* calculateRSI yields 100 at every defined index (index >= period, counted
\* from 0), and null below; the one-value calculateRSI yields 100 too.
C21_IncreasingGives100 ==
  (/\ calc.fn = "calculateRSI"
   /\ Len(calc.prices) >= period + 1
   /\ StrictlyIncreasing(calc.prices))
    => (/\ Len(calc.series) = Len(calc.prices)
        /\ \A i \in 1..Len(calc.series) :
             calc.series[i] = IF i <= period THEN NULL ELSE 10000
        /\ calc.single = 10000)

\* a strictly increasing series long enough for two smoothing passes
C21_Witness ==
  /\ calc.fn = "calculateRSI"
  /\ Len(calc.prices) = period + 3
  /\ StrictlyIncreasing(calc.prices)
  /\ calc.series[period + 1] = 10000
  /\ calc.series[period + 3] = 10000

(***************************************************************************)
(* Properties of norm                                                      *)
(***************************************************************************)

\* C22: for min < max, norm(x, min, max) is 0 for x <= min, 1 for
\* x >= max and (x - min) / (max - min) in between; it lies in [0, 1] and
\* is monotonic non-decreasing in x.
C22_NormClampedMonotonic ==
  (/\ calc.fn = "norm"
   /\ calc.min < calc.max
   /\ calc.x # NULL
   /\ calc.y # NULL)
    => (/\ calc.x <= calc.min => FracEq(calc.ofX, Frac(0, 1))
        /\ calc.x >= calc.max => FracEq(calc.ofX, Frac(1, 1))
        /\ (calc.min < calc.x /\ calc.x < calc.max)
             => FracEq(calc.ofX, Frac(calc.x - calc.min, calc.max - calc.min))
        /\ FracLeq(Frac(0, 1), calc.ofX)
        /\ FracLeq(calc.ofX, Frac(1, 1))
        /\ calc.x <= calc.y => FracLeq(calc.ofX, calc.ofY))

\* norm of a value strictly between the ends and of a value above the
\* upper end: a proper fraction and 1
C22_Witness ==
  /\ calc.fn = "norm"
  /\ calc.x # NULL
  /\ calc.min < calc.x
  /\ calc.x < calc.max
  /\ calc.max < calc.y
  /\ calc.ofX = Frac(calc.x - calc.min, calc.max - calc.min)
  /\ calc.ofY = Frac(1, 1)

(***************************************************************************)
(* Properties of the promotion                                             *)
(***************************************************************************)

\* the symbols the promotion of a cycle calls ensure() for
Promoted(s) == {s.results[k].symbol : k \in 1..PromoteCalls(s)}

\* C23: at the end of a cycle's promote step, which calls ensure() for the
\* min(limit, number of candidates) candidates of highest totalScore in
\* descending order, every one of those symbols is tracked, provided no
\* subscribe call of the step failed: none of them was evicted by a later
\* promotion of the step.
C23_PromotedAreTracked ==
  [][\A c \in Cycles :
       (/\ ~scan[c].promoted
        /\ scan'[c].promoted
        /\ Promoted(scan'[c]) \cap subFailed' = {})
         => (/\ Promoted(scan'[c]) \subseteq set'
             /\ Promoted(scan'[c]) \subseteq Range(queue')
             /\ \A k \in 1..(PromoteCalls(scan'[c]) - 1) :
                  scan'[c].results[k].totalScore
                    >= scan'[c].results[k + 1].totalScore)]_vars

\* a cycle promoted two candidates into a manager that held another symbol:
\* its last ensure() found the queue full and evicted, and both candidates
\* are tracked
C23_Witness ==
  \E c \in Cycles :
    /\ scan[c].promoted
    /\ PromoteCalls(scan[c]) = limit
    /\ lastCall.symbol = scan[c].results[limit].symbol
    /\ Len(lastCall.preQueue) = limit
    /\ lastCall.calls # <<>>
    /\ Promoted(scan[c]) \cap lastCall.preSet # {}
    /\ Promoted(scan[c]) \subseteq set

(***************************************************************************)
(* Properties of the manager and the stream together                       *)
(***************************************************************************)

\* C24 as stated: after any sequence of ensure() calls, calls in which a
\* stream send throws included, the set of symbols tracked by the manager
\* equals the stream's own set of subscribed symbols (so that the stream's
\* MAX_SUBSCRIPTIONS guard, which counts that set, never rejects a
\* subscribe of the manager).
C24_Claim == set = subscribed

\* what the code does hold to: every tracked symbol is subscribed
C24_TrackedAreSubscribed == set \subseteq subscribed

\* the subscribe call of the last ensure() failed
SubscribeFailed ==
  Ensured /\ Len(CallsOf("subscribe")) > 0 /\ CallsOf("subscribe")[1].threw

\* C25 as stated: if ensure(s) ends without s being tracked because the
\* subscribe call failed, the queue and the set are exactly as they were
\* before the call, also when the manager was at capacity.
C25_Claim ==
  SubscribeFailed => (queue = lastCall.preQueue /\ set = lastCall.preSet)

\* what the code does hold to: below capacity the failed call changes
\* nothing; at capacity it has removed the oldest symbol and nothing else
C25_FailedSubscribeEffect ==
  SubscribeFailed
    => (/\ lastCall.symbol \notin set
        /\ IF Len(lastCall.preQueue) >= limit
             THEN /\ queue = Tail(lastCall.preQueue)
                  /\ set = lastCall.preSet \ {Head(lastCall.preQueue)}
             ELSE /\ queue = lastCall.preQueue
                  /\ set = lastCall.preSet)

(***************************************************************************)
(* Properties of the advisory call                                         *)
(***************************************************************************)

\* C26: the advisory service is called for a symbol iff its squeezeScore is
\* at least 2: a symbol that passes the gate only as an early candidate
\* (earlySetupScore >= 4 with squeezeScore < 2) is emitted as a candidate
\* with the rule-based defaults and without any advisory call.
C26_AdvisoryOnlyForSqueeze ==
  analysis.pc # "idle"
    => (/\ analysis.gptCalled <=> SqueezeScore(analysis.data) >= 2
        /\ (analysis.pc = "gpt" \/ analysis.gpt # "none") <=> analysis.gptCalled
        /\ (EarlySetupScore(analysis.data) >= 4 /\ SqueezeScore(analysis.data) < 2)
             => (/\ analysis.pc = "returned"
                 /\ ~analysis.gptCalled
                 /\ analysis.result = Defaults(analysis.data)))

\* a record that is an early candidate only was returned as a candidate
\* without an advisory call
C26_Witness ==
  /\ analysis.pc = "returned"
  /\ EarlySetupScore(analysis.data) >= 4
  /\ SqueezeScore(analysis.data) < 2
  /\ analysis.result.kind = "cand"
  /\ ~analysis.gptCalled
  /\ analysis.gpt = "none"

(***************************************************************************)
(* Properties of the poller and the cycle it triggered                     *)
(***************************************************************************)

\* the poller returned rows whose newest timestamp is not the one it had
\* recorded before triggering
C27_ReturnsOnNewTimestamp ==
  poller.pc = "returned"
    => (/\ poller.data # <<>>
        /\ poller.data[1].timestamp # poller.oldTimestamp)

\* C27 as stated: whenever the cycle started by triggerScanAndWait has
\* completed and persisted before the wait is over, the poller returns (it
\* does not time out) and the candidates it returns are those of that
\* cycle; it returns only on a newest-candidate timestamp different from
\* the one it recorded before triggering.
C27_Claim ==
  /\ ~(/\ poller.pc = "timedOut"
       /\ poller.gaveUpAt = "done"
       /\ scan[1].saved = "committed")
  /\ poller.pc = "returned" => \A k \in 1..Len(poller.data) : poller.data[k].cycle = 1
  /\ C27_ReturnsOnNewTimestamp

\* the failing case: the cycle ended without a candidate and committed its
\* history row before the last poll, and the poller timed out
C27_EmptyCycleTimesOut ==
  /\ poller.pc = "timedOut"
  /\ poller.gaveUpAt = "done"
  /\ scan[1].saved = "committed"
  /\ scan[1].results = <<>>
  /\ Len(HistoryOf(1)) = 1
  /\ squeezeCandidates = <<>>

(***************************************************************************)
(* Properties of the writes of overlapping cycles                          *)
(***************************************************************************)

\* the ids (positions in insertion order) of the candidate rows of cycle c
RowIds(c) == {k \in 1..Len(squeezeCandidates) : squeezeCandidates[k].cycle = c}

\* C28: when cycles overlap, their writes do not interleave: the candidate
\* rows of one cycle are contiguous in insertion order and share one
\* timestamp, exactly one history row is written per successful cycle, and
\* its candidateCount is the number of candidate rows the cycle wrote.
C28_WritesDoNotInterleave ==
  \A c \in Cycles :
    /\ \A i, j \in RowIds(c) : \A k \in i..j : k \in RowIds(c)
    /\ \A i, j \in RowIds(c) :
         squeezeCandidates[i].timestamp = squeezeCandidates[j].timestamp
    /\ Len(HistoryOf(c)) = IF scan[c].saved = "committed" THEN 1 ELSE 0
    /\ scan[c].saved = "committed"
         => (/\ HistoryOf(c)[1].candidateCount = Cardinality(RowIds(c))
             /\ \A i \in RowIds(c) :
                  squeezeCandidates[i].timestamp = HistoryOf(c)[1].timestamp)
    /\ scan[c].saved # "committed" => RowIds(c) = {}

\* two cycles overlapped and both wrote: the second one triggered wrote
\* first, and the two rows of the first one follow, side by side
C28_Witness ==
  /\ scan[1].saved = "committed"
  /\ scan[2].saved = "committed"
  /\ RowIds(2) = {1}
  /\ RowIds(1) = {2, 3}
  /\ Len(history) = 2
  /\ history[1].cycle = 2

(***************************************************************************)
(* Properties of the indicator cache                                       *)
(***************************************************************************)

\* the entry is there and younger than 5 minutes at time now
YoungerThan5Min(entry, now) == entry.ts # NULL /\ now - entry.ts < 300000

\* a call that found a young entry returns its payload without a request;
\* any other call issues requests; what is cached is a payload
C29_CacheInvariant ==
  /\ \A k \in FhCalls :
       LET call == finnhub.calls[k]
       IN  call.pc # "idle"
             => IF YoungerThan5Min(call.seen, call.now)
                  THEN /\ call.pc = "returned"
                       /\ call.requests = 0
                       /\ call.result = [kind |-> "payload", fetchedAt |-> call.seen.data]
                  ELSE call.requests >= 1
  /\ \A s \in CacheSymbols :
       finnhub.cache[s] # NoEntry
         => (finnhub.cache[s].ts # NULL /\ finnhub.cache[s].data # NULL)

\* a call that returns null or rejects leaves the cache as it is, and the
\* cache changes only when a call returns the payload it fetched
C29_CacheStep ==
  /\ \A k \in FhCalls :
       (/\ finnhub.calls[k].pc # "returned"
        /\ finnhub'.calls[k].pc = "returned"
        /\ finnhub'.calls[k].result.kind \in {"null", "rejected"})
         => finnhub'.cache = finnhub.cache
  /\ finnhub'.cache # finnhub.cache
       => \E k \in FhCalls :
            /\ finnhub.calls[k].pc = "rest"
            /\ finnhub'.calls[k].pc = "returned"
            /\ finnhub'.calls[k].result.kind = "payload"
            /\ finnhub'.cache =
                 [finnhub.cache EXCEPT ![finnhub.calls[k].symbol] =
                    [ts |-> finnhub.calls[k].now, data |-> finnhub.calls[k].now]]

\* C29: getFinnhubIndicators(symbol) returns the cached payload without
\* any provider request when the symbol's cache entry is younger than 5
\* minutes and issues requests otherwise; it never caches a failure: a
\* failed quote fetch returns null and leaves the cache entry unchanged, so
\* that the next call for the symbol fetches again.
C29_CacheFreshOrFetch ==
  /\ []C29_CacheInvariant
  /\ [][C29_CacheStep]_vars

\* a quote fetch failed for a symbol whose entry had expired, the call
\* returned null, the entry is as it was and another call for the symbol
\* has sent its quote request
C29_Witness ==
  \E j, k \in FhCalls :
    /\ finnhub.calls[j].pc = "returned"
    /\ finnhub.calls[j].result.kind = "null"
    /\ finnhub.calls[j].seen # NoEntry
    /\ finnhub.cache[finnhub.calls[j].symbol] = finnhub.calls[j].seen
    /\ finnhub.calls[k].symbol = finnhub.calls[j].symbol
    /\ finnhub.calls[k].now > finnhub.calls[j].now
    /\ finnhub.calls[k].pc = "quote"
    /\ finnhub.calls[k].requests = 1

(***************************************************************************)
(* Properties of the breakout and bounce signals                           *)
(***************************************************************************)

\* C30: for every input whose volumeSpike is a boolean (the only form the
\* fetch layer produces), scoreTicker reports breakout = false and
\* bounce = false: the two x2 terms add 0 to totalScore and their reasons
\* are not emitted, whatever price, support and resistance are.
C30_BooleanSpikeNoBreakout ==
  (calc.fn = "scoreTicker" /\ calc.data.volumeSpike.type = "boolean")
    => (/\ calc.out.breakout = FALSE
        /\ calc.out.bounce = FALSE
        /\ calc.out.terms = 0
        /\ calc.out.reasons = <<>>)

\* a record with a volume spike and a price above support and resistance
\* was scored without either signal
C30_Witness ==
  /\ calc.fn = "scoreTicker"
  /\ calc.data.volumeSpike = JsBoolean(TRUE)
  /\ calc.data.resistance # NULL
  /\ calc.data.price > calc.data.resistance
  /\ calc.data.price > calc.data.support
  /\ ~calc.out.breakout
  /\ ~calc.out.bounce

\* a numeric spike above 1.5 with the price above both levels gives both
\* signals: the comparison is not constant
C30_NumericSpikeSignals ==
  /\ calc.fn = "scoreTicker"
  /\ calc.data.volumeSpike = JsNumber(20)
  /\ calc.out.breakout
  /\ calc.out.bounce
  /\ calc.out.terms = 4

====
